---- MODULE Spec2Model ----
(***************************************************************************)
(* The agent loop of the CLI assistant (src/agent/core.py), together with  *)
(* the conversation memory (src/agent/memory.py), the message type         *)
(* (src/llm/base.py) and the tool dispatcher (src/tools/dispatcher.py,     *)
(* src/tools/base.py, src/utils/exceptions.py).                            *)
(*                                                                         *)
(* Python strings are TLA+ strings, Python lists are sequences, dicts are  *)
(* functions whose domain is the set of keys that are present, and None   *)
(* is the string "None" where a string is optional.                        *)
(***************************************************************************)
EXTENDS Integers, Sequences, FiniteSets, TLC

\* ---------------------------------------------------------------- bounds
\* Largest max_iterations injected at Agent construction.
MaxIter == 2
\* Largest number of tool-call requests in one model response.
MaxCalls == 2
\* The max_messages bound of the ConversationMemory under test.
MaxMessages == 4

\* ------------------------------------------------------- python helpers
None == "None"

\* Truthiness of an optional string: None and "" are falsy.
Truthy(s) == s # None /\ s # ""

\* An `or` that only replaces None: `a if a is not None else b`.
Or_OnlyNone(a, b) == IF a # None THEN a ELSE b

\* Python's `a or b` on optional strings.
Or(a, b) == IF Truthy(a) THEN a ELSE b

\* dict.get(key, default)
Get(d, key, default) == IF key \in DOMAIN d THEN d[key] ELSE default

StartsWith(s, prefix) ==
    /\ Len(s) >= Len(prefix)
    /\ SubSeq(s, 1, Len(prefix)) = prefix

RECURSIVE Join(_, _)
\* sep.join(names)
Join(names, sep) ==
    IF Len(names) = 0 THEN ""
    ELSE IF Len(names) = 1 THEN names[1]
    ELSE names[1] \o sep \o Join(Tail(names), sep)

\* ------------------------------------------------------------- messages
\* Message.tool_calls is None or a list.
NoToolCalls == [isNone |-> TRUE, list |-> <<>>]
ToolCallsList(l) == [isNone |-> FALSE, list |-> l]

Message(role, content, tool_calls, tool_call_id) ==
    [role |-> role, content |-> content,
     tool_calls |-> tool_calls, tool_call_id |-> tool_call_id]

MessageSystem(content) == Message("system", content, NoToolCalls, None)
MessageUser(content) == Message("user", content, NoToolCalls, None)
MessageAssistant(content, tool_calls) ==
    Message("assistant", content, tool_calls, None)
MessageToolResult(content, tool_call_id) ==
    Message("tool", content, NoToolCalls, tool_call_id)

\* --------------------------------------------------- conversation memory
\* ConversationMemory.max_messages when the constructor is not given one.
DEFAULT_MAX_MESSAGES == 100

\* A trim that keeps the oldest messages: `self.messages[:self.max_messages]`.
trim_if_needed_KeepsOldest(msgs, max) ==
    IF Len(msgs) > max
    THEN SubSeq(msgs, 1, max)
    ELSE msgs

\* _trim_if_needed, lines 56-61.
trim_if_needed(msgs, max) ==
    IF Len(msgs) > max
    THEN SubSeq(msgs, (Len(msgs) - max) + 1, Len(msgs))
    ELSE msgs

add_user_message(msgs, max, content) ==
    trim_if_needed(Append(msgs, MessageUser(content)), max)

add_assistant_message(msgs, max, content, tool_calls) ==
    trim_if_needed(Append(msgs, MessageAssistant(content, tool_calls)), max)

add_tool_result(msgs, max, content, tool_call_id) ==
    trim_if_needed(Append(msgs, MessageToolResult(content, tool_call_id)), max)

get_messages(prompt, msgs) ==
    IF Truthy(prompt) THEN <<MessageSystem(prompt)>> \o msgs ELSE msgs

\* ----------------------------------------------------------- tool result
ToolResult(success, data, error) ==
    [success |-> success, data |-> data, error |-> error]

\* A to_message that tests the truth value of the data: `if self.data`.
to_message_FalsyData(result) ==
    IF result.success
    THEN (IF Truthy(result.data) THEN result.data
          ELSE "Operation completed successfully.")
    ELSE "Error: " \o result.error

\* ToolResult.to_message, lines 16-20; the data of every tool is a string,
\* which str() returns as it is.
to_message(result) ==
    IF result.success
    THEN (IF result.data # None THEN result.data
          ELSE "Operation completed successfully.")
    ELSE "Error: " \o result.error

\* ------------------------------------------------------------ exceptions
ToolNotFoundError(tool_name) ==
    [type |-> "ToolNotFoundError", str |-> "Tool not found: " \o tool_name]

ToolExecutionError(tool_name, message) ==
    [type |-> "ToolExecutionError",
     str |-> "Error executing " \o tool_name \o ": " \o message]

\* ToolNotFoundError and ToolExecutionError derive from ToolError.
IsToolError(exc) == exc.type \in {"ToolNotFoundError", "ToolExecutionError"}

\* --------------------------------------------------------------- ToolCall
\* ToolCall.arguments is a dict or a raw string; the tag keeps the Python type.
Dict(d) == [type |-> "dict", value |-> d]
Str(s) == [type |-> "str", value |-> s]
EmptyDict == Dict(<<>>)

ToolCall(name, arguments, id) ==
    [name |-> name, arguments |-> arguments, id |-> id]

from_ollama_response(tool_call) ==
    LET function == Get(tool_call, "function", <<>>)
    IN  ToolCall(Get(function, "name", ""),
                 Get(function, "arguments", EmptyDict),
                 Get(tool_call, "id", None))

from_dict(data) ==
    IF "function" \in DOMAIN data
    THEN from_ollama_response(data)
    ELSE ToolCall(Get(data, "name", ""),
                  Get(data, "arguments", EmptyDict),
                  Get(data, "id", None))

\* ----------------------------------------------------------- tool bodies
Returns(result) == [kind |-> "return", result |-> result]
Raises(exc) == [kind |-> "raise", exc |-> exc]

\* The nodes of the syntax trees that ast.parse makes of the expressions of
\* the model.
Constant(type, value) ==
    [node |-> "Constant", type |-> type, value |-> value]
Name(id) == [node |-> "Name", id |-> id]
BinOp(left, op, right) ==
    [node |-> "BinOp", left |-> left, op |-> op, right |-> right]
Call(func, args) == [node |-> "Call", func |-> func, args |-> args]
Attribute(value, attr) == [node |-> "Attribute", value |-> value, attr |-> attr]
NotAnExpression == [node |-> "SyntaxError"]

\* ast.parse(expression, mode="eval") on the expressions of the model; a
\* statement, and any other text, is a SyntaxError.
ast_parse(expression) ==
    CASE expression = "2+2" -> BinOp(Constant("int", 2), "Add", Constant("int", 2))
      [] expression = "4/2" -> BinOp(Constant("int", 4), "Div", Constant("int", 2))
      [] expression = "1/0" -> BinOp(Constant("int", 1), "Div", Constant("int", 0))
      [] expression = "2*(3-4)" ->
             BinOp(Constant("int", 2), "Mult", BinOp(Constant("int", 3), "Sub", Constant("int", 4)))
      [] expression = "abs(3-4)" ->
             Call(Name("abs"), <<BinOp(Constant("int", 3), "Sub", Constant("int", 4))>>)
      [] expression = "abs()" -> Call(Name("abs"), <<>>)
      [] expression = "invalid" -> Name("invalid")
      [] expression = "'2'" -> Constant("str", "2")
      [] expression = "os.system" -> Attribute(Name("os"), "system")
      [] expression = "__import__('os')" ->
             Call(Name("__import__"), <<Constant("str", "os")>>)
      [] OTHER -> NotAnExpression

\* A number, or the exception an evaluation raised.
Value(v) == [kind |-> "value", value |-> v]
Raised(kind, message) == [kind |-> kind, value |-> message]

RECURSIVE visit(_)
\* SafeEvaluator.visit, lines 49-96.  The numbers of the model are
\* integers and its divisions are exact, so that the float of a true
\* division is one that execute turns into an int (lines 142-143).
visit(node) ==
    CASE node.node = "Constant" ->
             IF node.type = "int" THEN Value(node.value)
             ELSE Raised("ValueError",
                         "Unsupported constant type: <class 'str'>")
      [] node.node = "Name" ->
             Raised("ValueError", "Unknown variable: " \o node.id)
      [] node.node = "BinOp" ->
             LET left == visit(node.left)
                 right == visit(node.right)
             IN  IF left.kind # "value" THEN left
                 ELSE IF right.kind # "value" THEN right
                 ELSE (CASE node.op = "Add" -> Value(left.value + right.value)
                         [] node.op = "Sub" -> Value(left.value - right.value)
                         [] node.op = "Mult" -> Value(left.value * right.value)
                         [] node.op = "Div" ->
                                IF right.value = 0
                                THEN Raised("ZeroDivisionError",
                                            "division by zero")
                                ELSE Value(left.value \div right.value))
      [] node.node = "Call" ->
             IF node.func.node # "Name"
             THEN Raised("ValueError", "Only simple function calls are allowed")
             ELSE IF node.func.id # "abs"
             THEN Raised("ValueError", "Unknown function: " \o node.func.id)
             ELSE IF Len(node.args) # 1
             THEN Raised("TypeError",
                         "abs() takes exactly one argument (0 given)")
             ELSE LET arg == visit(node.args[1])
                  IN  IF arg.kind # "value" THEN arg
                      ELSE Value(IF arg.value < 0 THEN 0 - arg.value
                                 ELSE arg.value)
      [] OTHER ->
             Raised("ValueError",
                    "Unsupported expression type: " \o node.node)

\* str() of a number of the model.
number_text(v) ==
    IF v < 0 THEN "-" \o ToString(0 - v) ELSE ToString(v)

\* safe_eval, lines 99-117: the value, as execute formats it, or the
\* exception; a SyntaxError of ast.parse becomes a ValueError.
safe_eval(expression) ==
    LET tree == ast_parse(expression)
    IN  IF tree = NotAnExpression
        THEN Raised("ValueError",
                    "Invalid expression syntax: invalid syntax (<unknown>, line 1)")
        ELSE LET r == visit(tree)
             IN  IF r.kind = "value" THEN Value(number_text(r.value)) ELSE r

\* An execute without the handler of ZeroDivisionError (lines 150-151) and
\* without the handler of Exception (lines 152-153).
CalculatorTool_execute_ValueErrorOnly(kwargs) ==
    LET expression == Get(kwargs, "expression", "")
    IN  IF ~Truthy(expression)
        THEN Returns(ToolResult(FALSE, None, "No expression provided"))
        ELSE LET r == safe_eval(expression)
             IN  CASE r.kind = "value" ->
                        Returns(ToolResult(TRUE, expression \o " = " \o r.value, None))
                   [] r.kind = "ValueError" ->
                        Returns(ToolResult(FALSE, None, r.value))
                   [] OTHER ->
                        Raises([type |-> r.kind, str |-> r.value])

\* CalculatorTool.execute, lines 133-153.
CalculatorTool_execute(kwargs) ==
    LET expression == Get(kwargs, "expression", "")
    IN  IF ~Truthy(expression)
        THEN Returns(ToolResult(FALSE, None, "No expression provided"))
        ELSE LET r == safe_eval(expression)
             IN  CASE r.kind = "value" ->
                        Returns(ToolResult(TRUE, expression \o " = " \o r.value, None))
                   [] r.kind = "ValueError" ->
                        Returns(ToolResult(FALSE, None, r.value))
                   [] r.kind = "ZeroDivisionError" ->
                        Returns(ToolResult(FALSE, None, "Division by zero"))
                   [] OTHER ->
                        Returns(ToolResult(FALSE, None,
                                           "Calculation error: " \o r.value))

\* Path(path_str).expanduser() runs outside the try block of the tool: a
\* "~user" path of an unknown user raises RuntimeError out of the tool body.
UnknownUserPath == "~nouser"
FileOpsTool_execute(kwargs) ==
    LET operation == Get(kwargs, "operation", "")
        path_str == Get(kwargs, "path", "")
    IN  IF ~Truthy(operation)
        THEN Returns(ToolResult(FALSE, None, "No operation specified"))
        ELSE IF ~Truthy(path_str)
        THEN Returns(ToolResult(FALSE, None, "No path specified"))
        ELSE IF path_str = UnknownUserPath
        THEN Raises([type |-> "RuntimeError",
                     str |-> "Could not determine home directory."])
        ELSE IF operation \notin {"list", "read", "info", "create_dir"}
        THEN Returns(ToolResult(FALSE, None,
                 "Unknown operation: " \o operation
                 \o ". Supported: list, read, info, create_dir"))
        ELSE Returns(ToolResult(FALSE, None, "Directory not found: " \o path_str))

\* tool.execute(**kwargs) of the registered tool called `name`.
Tool_execute(name, kwargs) ==
    CASE name = "calculator" -> CalculatorTool_execute(kwargs)
      [] name = "file_ops" -> FileOpsTool_execute(kwargs)

\* ------------------------------------------------------------- registry
\* Registration order of the import block of tools/dispatcher.py.
RegisteredTools ==
    <<"calculator", "file_ops", "weather", "web_search", "system_info">>

list_tools(tools) == tools

\* ToolSchema.to_ollama_format of the schema of the tool called `name`; the
\* description and the parameters are fixed texts of the tool class.
get_schema(name) == [type |-> "function", function |-> [name |-> name]]

\* A schema list that leaves out the tool registered last.
get_tool_schemas_WithoutLast(tools) ==
    [i \in 1..(Len(tools) - 1) |-> get_schema(tools[i])]

\* ToolDispatcher.get_tool_schemas, ToolRegistry.get_all_schemas: the schema
\* of every registered tool, in registration order.
get_tool_schemas(tools) ==
    [i \in 1..Len(tools) |-> get_schema(tools[i])]

registry_get(tools, name) ==
    IF \E i \in 1..Len(tools) : tools[i] = name THEN name ELSE None

\* ToolRegistry on tool objects.  A tool object has the name and the
\* description of its class; _tools is a dict, modelled as the sequence of its
\* entries in insertion order.
Tool(name, description) == [name |-> name, description |-> description]

\* What dict.get returns for a key that is absent.
NoTool == Tool(None, None)

\* ToolRegistry.__contains__, lines 82-83.
registry_contains(reg, name) == \E i \in 1..Len(reg) : reg[i].key = name

\* A register that keeps a list of tools: `self._tools.append(tool)`.
register_Appends(reg, tool) ==
    Append(reg, [key |-> tool.name, tool |-> tool])

\* ToolRegistry.register, lines 66-68: `self._tools[tool.name] = tool`; a key
\* that is present keeps its place and gets the new value.
register(reg, tool) ==
    IF registry_contains(reg, tool.name)
    THEN [i \in 1..Len(reg) |->
             IF reg[i].key = tool.name
             THEN [key |-> tool.name, tool |-> tool]
             ELSE reg[i]]
    ELSE Append(reg, [key |-> tool.name, tool |-> tool])

\* ToolRegistry.get, lines 70-72.
registry_lookup(reg, name) ==
    IF registry_contains(reg, name)
    THEN reg[CHOOSE i \in 1..Len(reg) : reg[i].key = name].tool
    ELSE NoTool

\* Tool.get_schema().to_ollama_format() of a tool object.
tool_schema(tool) ==
    [type |-> "function",
     function |-> [name |-> tool.name, description |-> tool.description]]

\* ToolRegistry.get_all_schemas, lines 78-80.
get_all_schemas(reg) == [i \in 1..Len(reg) |-> tool_schema(reg[i].tool)]

\* ------------------------------------------------------------ dispatcher
\* json.loads on the argument texts of the model.
JsonExpression == "{\"expression\": \"2+2\"}"
json_loads(text) ==
    IF text = JsonExpression
    THEN [ok |-> TRUE, value |-> Dict([expression |-> "2+2"])]
    ELSE [ok |-> FALSE, value |-> Str(text)]

\* Lines 95-99: arguments that arrive as a string are parsed as JSON; a
\* string that does not parse is kept as it is.
resolve_arguments(arguments) ==
    IF arguments.type = "str"
    THEN (IF json_loads(arguments.value).ok
          THEN json_loads(arguments.value).value
          ELSE arguments)
    ELSE arguments

\* Line 102: the body of tool.execute is entered only when the ** unpacking
\* of the arguments has succeeded, that is when they are a dict.
tool_invoked(tool, arguments) == tool # None /\ arguments.type = "dict"

\* Line 102, `await tool.execute(**arguments)`: unpacking a string raises
\* TypeError, otherwise the tool body runs.
call_tool(tool, arguments) ==
    IF arguments.type # "dict"
    THEN Raises([type |-> "TypeError",
                 str |-> "argument after ** must be a mapping, not str"])
    ELSE Tool_execute(tool, arguments.value)

\* execute that reports a missing tool with an exception that is no ToolError.
execute_NotFoundIsKeyError(tools, tool_call) ==
    LET tool_name == tool_call.name
        tool == registry_get(tools, tool_name)
    IN  IF tool = None
        THEN Raises([type |-> "KeyError", str |-> tool_name])
        ELSE LET out == call_tool(tool, resolve_arguments(tool_call.arguments))
             IN  IF out.kind = "raise"
                 THEN Raises(ToolExecutionError(tool_name, out.exc.str))
                 ELSE out

\* execute without the try/except of lines 93-108 around the tool call.
execute_Unwrapped(tools, tool_call) ==
    LET tool_name == tool_call.name
        tool == registry_get(tools, tool_name)
    IN  IF tool = None
        THEN Raises(ToolNotFoundError(
                 "Tool '" \o tool_name \o "' not found. Available tools: "
                 \o Join(list_tools(tools), ", ")))
        ELSE call_tool(tool, resolve_arguments(tool_call.arguments))

\* ToolDispatcher.execute: a ToolResult, or a raised ToolError.
execute(tools, tool_call) ==
    LET tool_name == tool_call.name
        tool == registry_get(tools, tool_name)
    IN  IF tool = None
        THEN Raises(ToolNotFoundError(
                 "Tool '" \o tool_name \o "' not found. Available tools: "
                 \o Join(list_tools(tools), ", ")))
        ELSE LET out == call_tool(tool, resolve_arguments(tool_call.arguments))
             IN  IF out.kind = "raise"
                 THEN Raises(ToolExecutionError(tool_name, out.exc.str))
                 ELSE out

\* ------------------------------------------------------- program constants
SYSTEM_PROMPT == "You are a helpful CLI assistant with access to various tools."
FALLBACK == "I don't have a response."
APOLOGY == "I apologize, but I've reached the maximum number of tool calls. Please try a simpler request."
LLM_ERROR_PREFIX == "Sorry, I encountered an error: "

\* ------------------------------------------------------------------ inputs
UserInputs == {"What is 2+2?"}

\* Text of a model response that requests tools, and of a final response.
ToolRoundContents == {"Let me check."}
FinalContents == {"", "The answer is 4."}

\* str(e) of the LLMError raised by the provider.
LLMErrors == {"Failed to connect to Ollama: timeout"}

\* Tool-call requests as the provider hands them over: the nested Ollama
\* format and the direct format, with and without an id.  The first one
\* succeeds, the second one names no registered tool, the body of the third
\* one raises.
ToolCallRequests ==
    { [function |-> [name |-> "calculator",
                     arguments |-> Dict([expression |-> "2+2"])]],
      [name |-> "nosuch", arguments |-> EmptyDict, id |-> "id1"],
      [name |-> "file_ops",
       arguments |-> Dict([operation |-> "list", path |-> UnknownUserPath])] }

RECURSIVE SeqsUpTo(_, _)
\* The sequences over S of length 1..n.
SeqsUpTo(S, n) ==
    IF n = 0 THEN {}
    ELSE {<<x>> : x \in S}
         \cup {Append(q, x) : q \in SeqsUpTo(S, n - 1), x \in S}

\* A fixed order of the requests.
RequestRank(r) ==
    CASE from_dict(r).name = "calculator" -> 1
      [] from_dict(r).name = "nosuch" -> 2
      [] OTHER -> 3

\* The tool_calls lists of the model responses: every combination of up to
\* MaxCalls requests, repeats included, each in the fixed order.
ToolCallLists ==
    { l \in SeqsUpTo(ToolCallRequests, MaxCalls) :
        \A i \in 1..(Len(l) - 1) : RequestRank(l[i]) <= RequestRank(l[i + 1]) }

\* ------------------------------------------------------------------- state
VARIABLES
    messages,         \* ConversationMemory.messages
    system_prompt,    \* ConversationMemory.system_prompt
    max_messages,     \* ConversationMemory.max_messages
    tools,            \* ToolRegistry._tools, the names in registration order
    max_iterations,   \* Agent.max_iterations
    pc,               \* position of Agent.run: "idle", "loop" or "tools"
    iteration,        \* local `iteration` of Agent.run
    tool_calls_made,  \* local list of Agent.run
    tool_results,     \* local list of Agent.run
    pending,          \* response.tool_calls of the round being processed
    idx,              \* position of the for loop in `pending`
    response,         \* the AgentResponse returned by the last turn
    exit,             \* which return statement ended the last turn
    payload,          \* the `messages` argument of the last llm.chat call
    events            \* history of the current turn: chat calls, appends to
                      \* memory, dispatches

\* State of the models of the memory alone, of the streaming turn and of the
\* session loop; a turn of Agent.run leaves it alone.
VARIABLES
    offered,          \* the `tools` argument of the last llm.chat call
    last_op,          \* the last ConversationMemory method called on the
                      \* memory, with the value it returned
    full_response,    \* local `full_response` of Agent.run_stream
    heap,             \* the ConversationMemory instances of the process, by
                      \* identity: heap[r] is the state of instance r
    agent_memory,     \* Agent.memory: the instance the agent appends to
    main_memory,      \* local `memory` of run_assistant: the instance the
                      \* session loop saves and hands to the commands
    snapshot,         \* the conversation last written by the history manager
    running,          \* the main loop of run_assistant has not ended
    registry,         \* ToolRegistry._tools of a registry under test: the
                      \* entries of the dict, in insertion order
    tool_op,          \* the last call made on the tool layer under test,
                      \* with its argument and the value it returned
    callbacks,        \* Agent._on_thinking, _on_tool_start, _on_tool_end:
                      \* which of them are set
    notices,          \* the calls the agent has made to its callbacks in
                      \* the current turn, in order
    files,            \* the session files of the history directory, by
                      \* session id
    history_op,       \* the last call made on the HistoryManager, with its
                      \* outcome and the failures that occurred inside it
    now,              \* datetime.now(), counted in whole seconds
    injected          \* the max_iterations argument Agent.__init__ was given

\* The state of run_assistant.
session == <<heap, agent_memory, main_memory, snapshot, running>>

\* The tool layer under test.
extra == <<registry, tool_op>>

\* The callbacks of the agent and the calls made to them.
hooks == <<callbacks, notices>>

\* The history directory and the calls on the HistoryManager.
disk == <<files, history_op, now, injected>>

\* What no step of Agent.run touches.
quiet == <<last_op, full_response, session, extra, disk>>

\* All of it but `offered`.
beside == <<quiet, hooks>>

aside == <<offered, beside>>

\* ConversationMemory(): the instance the constructor makes.
ConversationMemory ==
    [messages |-> <<>>, system_prompt |-> None,
     max_messages |-> DEFAULT_MAX_MESSAGES]

\* ConversationMemory.__len__, and the truth value Python derives from it.
memory_len(memory) == Len(memory.messages)
memory_bool(memory) == memory_len(memory) # 0

\* Agent.__init__, lines 56 and 60: `memory or ConversationMemory()` is the
\* handed instance when that is truthy and a new instance otherwise; the
\* system prompt is set on the chosen instance.  h is the heap, memory the
\* reference handed in.
Agent_init(h, memory) ==
    LET chosen == IF memory_bool(h[memory]) THEN memory ELSE Len(h) + 1
        h1 == IF memory_bool(h[memory]) THEN h ELSE Append(h, ConversationMemory)
    IN  [heap |-> [h1 EXCEPT ![chosen].system_prompt = SYSTEM_PROMPT],
         agent_memory |-> chosen]

\* config.max_tool_iterations, utils/config.py line 25.
MAX_TOOL_ITERATIONS == 10

\* The max_iterations argument of Agent.__init__: an integer, or None when
\* the caller gives none.
Given(n) == [isNone |-> FALSE, value |-> n]
NotGiven == [isNone |-> TRUE, value |-> 0]

\* Agent.__init__, line 57: `max_iterations or config.max_tool_iterations`.
\* Python's `or` takes the right operand when the left one is falsy, which
\* None and 0 both are.
Agent_max_iterations(given) ==
    IF given.isNone \/ given.value = 0
    THEN MAX_TOOL_ITERATIONS
    ELSE given.value

\* A set_memory that takes the memory as it is.
set_memory_AsIs(h, memory) ==
    [heap |-> h, agent_memory |-> memory]

\* Agent.set_memory, lines 257-261.
set_memory(h, memory) ==
    [heap |-> IF Truthy(h[memory].system_prompt) THEN h
              ELSE [h EXCEPT ![memory].system_prompt = SYSTEM_PROMPT],
     agent_memory |-> memory]

NoSnapshot == [system_prompt |-> None, messages |-> <<>>, written |-> FALSE]

\* run_assistant, lines 41 and 53: memory = ConversationMemory() and
\* Agent(llm=llm, dispatcher=dispatcher, memory=memory).
SessionStart ==
    LET made == Agent_init(<<ConversationMemory>>, 1)
    IN  /\ heap = made.heap
        /\ agent_memory = made.agent_memory
        /\ main_memory = 1
        /\ snapshot = NoSnapshot
        /\ running = TRUE

NoOp == [name |-> "none", result |-> None]

\* A call on the tool layer: the method, its argument, what it returned.
ToolOp(name, arg, value) == [name |-> name, arg |-> arg, value |-> value]
NoToolOp == ToolOp("none", None, None)

\* The session ids of the model, and what is at the path of a session: no
\* file, a file that cannot be opened, a file that is no JSON text, or the
\* JSON text of `data`.
SessionIds == {"20260101_120000", "20260101_120001"}
File(state, data) == [state |-> state, data |-> data]
NoFile == File("absent", <<>>)

\* A call on the HistoryManager: the method, the session id, how it ended,
\* and the exceptions that were raised inside it, in order.
HistoryOp(name, id, out, failures) ==
    [name |-> name, id |-> id, out |-> out, failures |-> failures]
NoHistoryOp == HistoryOp("none", None, [kind |-> "return", result |-> None], <<>>)

\* Agent.__init__, lines 63-65: no callback is set.
NoCallbacks ==
    [on_thinking |-> FALSE, on_tool_start |-> FALSE, on_tool_end |-> FALSE]

AsideInit ==
    /\ offered = <<>>
    /\ last_op = NoOp
    /\ full_response = ""
    /\ SessionStart
    /\ registry = <<>>
    /\ tool_op = NoToolOp
    /\ callbacks = NoCallbacks
    /\ notices = <<>>
    /\ files = [id \in SessionIds |-> NoFile]
    /\ history_op = NoHistoryOp
    /\ now = 1

vars == <<messages, system_prompt, max_messages, tools, max_iterations, pc,
          iteration, tool_calls_made, tool_results, pending, idx, response,
          exit, payload, events>>

AgentResponse(content, made, results) ==
    [content |-> content, tool_calls_made |-> made, tool_results |-> results]

NoResponse == AgentResponse(None, <<>>, <<>>)

\* Entries of the history `events`.
EvRun(user_message) == [kind |-> "run", input |-> user_message]
EvChat(k, reply) == [kind |-> "chat", iteration |-> k, reply |-> reply]
EvAppend(m) == [kind |-> "append", msg |-> m]
EvDispatch(tc, out) == [kind |-> "dispatch", call |-> tc, outcome |-> out]

\* What llm.chat does: an LLMResponse or a raised LLMError.
LLMResponse(content, calls) ==
    [kind |-> "response", content |-> content, tool_calls |-> calls]
LLMError(e) == [kind |-> "error", str |-> e]

\* Agent.__init__ with an injected memory and max_iterations >= 1, as in
\* run_assistant: memory = ConversationMemory(), set_system_prompt.
Init ==
    /\ messages = <<>>
    /\ system_prompt = SYSTEM_PROMPT
    /\ max_messages = MaxMessages
    /\ tools = RegisteredTools
    /\ injected \in {Given(n) : n \in 1..MaxIter}
    /\ max_iterations = Agent_max_iterations(injected)
    /\ pc = "idle"
    /\ iteration = 0
    /\ tool_calls_made = <<>>
    /\ tool_results = <<>>
    /\ pending = <<>>
    /\ idx = 1
    /\ response = NoResponse
    /\ exit = "none"
    /\ payload = <<>>
    /\ events = <<>>
    /\ AsideInit

\* ------------------------------------------------------------- callbacks
\* Entries of `notices`: the callback called, its arguments, and `at`, the
\* length of the history `events` at the time of the call.
NoticeThinking(at) == [kind |-> "thinking", at |-> at]
NoticeToolStart(name, at) == [kind |-> "tool_start", name |-> name, at |-> at]
NoticeToolEnd(name, result, at) ==
    [kind |-> "tool_end", name |-> name, result |-> result, at |-> at]

\* Lines 101-102: `if self._on_thinking: self._on_thinking()`.
on_thinking(n, at) ==
    IF callbacks.on_thinking THEN Append(n, NoticeThinking(at)) ELSE n

\* Lines 133-134: `if self._on_tool_start: self._on_tool_start(name)`.
on_tool_start(n, name, at) ==
    IF callbacks.on_tool_start THEN Append(n, NoticeToolStart(name, at)) ELSE n

\* An on_tool_end that is called in the try block, after a dispatch that
\* returned, and is skipped when the dispatch raised.
on_tool_end_SuccessOnly(n, name, result, raised, at) ==
    IF callbacks.on_tool_end /\ ~raised
    THEN Append(n, NoticeToolEnd(name, result, at))
    ELSE n

\* Lines 143-144: `if self._on_tool_end: self._on_tool_end(name, result)`,
\* after the try statement of the dispatch.
on_tool_end(n, name, result, raised, at) ==
    IF callbacks.on_tool_end
    THEN Append(n, NoticeToolEnd(name, result, at))
    ELSE n

\* A tool_results.append that sits in the block of `if self._on_tool_end:`.
record_result_WhenNotified(results, result) ==
    IF callbacks.on_tool_end THEN Append(results, result) ELSE results

\* Line 141: `tool_results.append(result)`.
record_result(results, result) == Append(results, result)

\* ---------------------------------------------------------------- Agent.run
\* Run that keeps the lists of the previous turn (lists held by the agent).
Run_KeepsLists(user_message) ==
    /\ pc = "idle"
    /\ messages' = add_user_message(messages, max_messages, user_message)
    /\ iteration' = 0
    /\ pc' = "loop"
    /\ pending' = <<>>
    /\ idx' = 1
    /\ response' = NoResponse
    /\ exit' = "running"
    /\ payload' = <<>>
    /\ events' = <<EvRun(user_message),
                   EvAppend(MessageUser(user_message))>>
    /\ UNCHANGED <<system_prompt, max_messages, tools, max_iterations,
                   tool_calls_made, tool_results>>
    /\ UNCHANGED aside

\* Lines 91-95: append the user message, reset the per-turn lists.
Run(user_message) ==
    /\ pc = "idle"
    /\ messages' = add_user_message(messages, max_messages, user_message)
    /\ tool_calls_made' = <<>>
    /\ tool_results' = <<>>
    /\ iteration' = 0
    /\ pc' = "loop"
    /\ pending' = <<>>
    /\ idx' = 1
    /\ response' = NoResponse
    /\ exit' = "running"
    /\ payload' = <<>>
    /\ events' = <<EvRun(user_message),
                   EvAppend(MessageUser(user_message))>>
    /\ UNCHANGED <<system_prompt, max_messages, tools, max_iterations>>
    /\ notices' = <<>>
    /\ UNCHANGED <<offered, quiet, callbacks>>

\* The while condition with an off-by-one: `iteration <= self.max_iterations`.
LoopGuard_OffByOne == iteration <= max_iterations

\* The while condition of line 97.
LoopGuard == iteration < max_iterations

\* An except branch that stores the error text as an assistant message.
except_LLMError_Stored(msgs, max, content) ==
    add_assistant_message(msgs, max, content, NoToolCalls)

\* Lines 110-116, the branch `except LLMError as e`: what it does to the
\* stored messages.  It logs and returns; memory is not touched.
except_LLMError(msgs, max, content) == msgs

\* ChatRaisesLLMError that goes on to the next iteration instead of returning.
ChatRaisesLLMError_Retry(e) ==
    /\ pc = "loop"
    /\ iteration < max_iterations
    /\ iteration' = iteration + 1
    /\ events' = Append(events, EvChat(iteration + 1, LLMError(e)))
    /\ payload' = get_messages(system_prompt, messages)
    /\ UNCHANGED <<messages, system_prompt, max_messages, tools,
                   max_iterations, pc, tool_calls_made, tool_results, pending,
                   idx, response, exit>>
    /\ offered' = get_tool_schemas(tools)
    /\ UNCHANGED beside

\* Lines 104-116: llm.chat raises LLMError, the turn returns the error text.
ChatRaisesLLMError(e) ==
    /\ pc = "loop"
    /\ LoopGuard
    /\ iteration' = iteration + 1
    /\ events' = Append(events,
           EvChat(iteration + 1, LLMError(e)))
    /\ payload' = get_messages(system_prompt, messages)
    /\ response' = AgentResponse(LLM_ERROR_PREFIX \o e,
                                 tool_calls_made, tool_results)
    /\ messages' = except_LLMError(messages, max_messages,
                                   LLM_ERROR_PREFIX \o e)
    /\ exit' = "llm_error"
    /\ pc' = "idle"
    /\ UNCHANGED <<system_prompt, max_messages, tools,
                   max_iterations, tool_calls_made, tool_results, pending, idx>>
    /\ offered' = get_tool_schemas(tools)
    /\ notices' = on_thinking(notices, Len(events))
    /\ UNCHANGED <<quiet, callbacks>>

\* ChatReturnsToolCalls without the add_assistant_message of lines 121-124.
ChatReturnsToolCalls_NoAssistantMessage(content, calls) ==
    /\ pc = "loop"
    /\ iteration < max_iterations
    /\ Len(calls) > 0
    /\ iteration' = iteration + 1
    /\ events' = Append(events,
           EvChat(iteration + 1, LLMResponse(content, calls)))
    /\ payload' = get_messages(system_prompt, messages)
    /\ pending' = calls
    /\ idx' = 1
    /\ pc' = "tools"
    /\ UNCHANGED <<messages, system_prompt, max_messages, tools,
                   max_iterations, tool_calls_made, tool_results, response,
                   exit>>
    /\ offered' = get_tool_schemas(tools)
    /\ UNCHANGED beside

\* Lines 119-124: the response has tool calls; the assistant message goes to
\* memory and the for loop over response.tool_calls starts.
ChatReturnsToolCalls(content, calls) ==
    /\ pc = "loop"
    /\ LoopGuard
    /\ Len(calls) > 0
    /\ iteration' = iteration + 1
    /\ messages' = add_assistant_message(messages, max_messages,
                       Or(content, ""), ToolCallsList(calls))
    /\ events' = events \o
           <<EvChat(iteration + 1, LLMResponse(content, calls)),
             EvAppend(MessageAssistant(Or(content, ""), ToolCallsList(calls)))>>
    /\ payload' = get_messages(system_prompt, messages)
    /\ pending' = calls
    /\ idx' = 1
    /\ pc' = "tools"
    /\ UNCHANGED <<system_prompt, max_messages, tools, max_iterations,
                   tool_calls_made, tool_results, response, exit>>
    /\ offered' = get_tool_schemas(tools)
    /\ notices' = on_thinking(notices, Len(events))
    /\ UNCHANGED <<quiet, callbacks>>

\* Line 147: the id of the request, or one made of iteration and tool name.
ToolCallId(tool_call, k) ==
    Or(tool_call.id, "call_" \o ToString(k) \o "_" \o tool_call.name)

\* A for loop that walks response.tool_calls from the last request to the
\* first.
CurrentRequest_Reversed == pending[(Len(pending) - idx) + 1]

\* Line 127: the element of response.tool_calls the for loop is at.
CurrentRequest == pending[idx]

\* DispatchToolCall without the add_tool_result of lines 148-151.
DispatchToolCall_NoToolMessage ==
    /\ pc = "tools"
    /\ idx <= Len(pending)
    /\ LET tool_call == from_dict(CurrentRequest)
           out == execute(tools, tool_call)
           result == IF out.kind = "raise"
                     THEN ToolResult(FALSE, None, out.exc.str)
                     ELSE out.result
       IN  /\ tool_calls_made' = Append(tool_calls_made, tool_call.name)
           /\ tool_results' = Append(tool_results, result)
           /\ events' = Append(events, EvDispatch(tool_call, out))
    /\ idx' = idx + 1
    /\ pc' = IF idx + 1 > Len(pending) THEN "loop" ELSE "tools"
    /\ UNCHANGED <<messages, system_prompt, max_messages, tools,
                   max_iterations, iteration, pending, response, exit,
                   payload>>
    /\ UNCHANGED aside

\* A for loop that is left after a call that failed.
for_loop_next_BreakOnFailure(result, position, calls) ==
    IF position + 1 > Len(calls) \/ ~result.success THEN "loop" ELSE "tools"

\* Line 127, `for tool_call_data in response.tool_calls`: where the turn
\* stands after the pass for the request at `position` has produced `result`:
\* at the next request, or back in the while loop after the last one.
for_loop_next(result, position, calls) ==
    IF position + 1 > Len(calls) THEN "loop" ELSE "tools"

\* Lines 127-151: one pass of the for loop body: from_dict, dispatch, record
\* the name and the result, append the tool message.  An exception that is
\* not a ToolError is not caught by line 138 and leaves Agent.run.
DispatchToolCall ==
    /\ pc = "tools"
    /\ idx <= Len(pending)
    /\ LET tool_call == from_dict(CurrentRequest)
           out == execute(tools, tool_call)
           started == on_tool_start(notices, tool_call.name, Len(events))
       IN  IF out.kind = "raise" /\ ~IsToolError(out.exc)
           THEN /\ tool_calls_made' = Append(tool_calls_made, tool_call.name)
                /\ events' = Append(events, EvDispatch(tool_call, out))
                /\ notices' = started
                /\ exit' = "exception"
                /\ pc' = "idle"
                /\ UNCHANGED <<messages, tool_results, idx>>
           ELSE LET result == IF out.kind = "raise"
                              THEN ToolResult(FALSE, None, out.exc.str)
                              ELSE out.result
                    tool_call_id == ToolCallId(tool_call, iteration)
                    msg == MessageToolResult(to_message(result), tool_call_id)
                IN  /\ tool_calls_made' = Append(tool_calls_made, tool_call.name)
                    /\ tool_results' = record_result(tool_results, result)
                    /\ messages' = add_tool_result(messages, max_messages,
                                       to_message(result), tool_call_id)
                    /\ events' = events \o
                           <<EvDispatch(tool_call, out), EvAppend(msg)>>
                    /\ notices' = on_tool_end(started, tool_call.name, result,
                                              out.kind = "raise",
                                              Len(events) + 1)
                    /\ idx' = idx + 1
                    /\ pc' = for_loop_next(result, idx, pending)
                    /\ exit' = exit
    /\ UNCHANGED <<system_prompt, max_messages, tools, max_iterations,
                   iteration, pending, response, payload>>
    /\ UNCHANGED <<offered, quiet, callbacks>>

\* ChatReturnsFinal that returns the content without storing it.
ChatReturnsFinal_NotStored(content) ==
    /\ pc = "loop"
    /\ iteration < max_iterations
    /\ iteration' = iteration + 1
    /\ events' = Append(events,
           EvChat(iteration + 1, LLMResponse(content, <<>>)))
    /\ response' = AgentResponse(Or(content, FALLBACK),
                                 tool_calls_made, tool_results)
    /\ payload' = get_messages(system_prompt, messages)
    /\ exit' = "final"
    /\ pc' = "idle"
    /\ UNCHANGED <<messages, system_prompt, max_messages, tools,
                   max_iterations, tool_calls_made, tool_results, pending, idx>>
    /\ offered' = get_tool_schemas(tools)
    /\ UNCHANGED beside

\* Lines 156-164: a response without tool calls is the final answer.
ChatReturnsFinal(content) ==
    /\ pc = "loop"
    /\ LoopGuard
    /\ iteration' = iteration + 1
    /\ LET final_content == Or(content, FALLBACK)
       IN  /\ messages' = add_assistant_message(messages, max_messages,
                              final_content, NoToolCalls)
           /\ events' = events \o
                  <<EvChat(iteration + 1, LLMResponse(content, <<>>)),
                    EvAppend(MessageAssistant(final_content, NoToolCalls))>>
           /\ response' = AgentResponse(final_content,
                                        tool_calls_made, tool_results)
    /\ payload' = get_messages(system_prompt, messages)
    /\ exit' = "final"
    /\ pc' = "idle"
    /\ UNCHANGED <<system_prompt, max_messages, tools, max_iterations,
                   tool_calls_made, tool_results, pending, idx>>
    /\ offered' = get_tool_schemas(tools)
    /\ notices' = on_thinking(notices, Len(events))
    /\ UNCHANGED <<quiet, callbacks>>

\* MaxIterationsReached that also stores the apology as an assistant message.
MaxIterationsReached_Stored ==
    /\ pc = "loop"
    /\ iteration >= max_iterations
    /\ messages' = add_assistant_message(messages, max_messages, APOLOGY,
                                         NoToolCalls)
    /\ events' = Append(events, EvAppend(MessageAssistant(APOLOGY, NoToolCalls)))
    /\ response' = AgentResponse(APOLOGY, tool_calls_made, tool_results)
    /\ exit' = "max_iterations"
    /\ pc' = "idle"
    /\ UNCHANGED <<system_prompt, max_messages, tools, max_iterations,
                   iteration, tool_calls_made, tool_results, pending, idx,
                   payload>>
    /\ UNCHANGED aside

\* Lines 166-172: the while loop ran out of iterations.
MaxIterationsReached ==
    /\ pc = "loop"
    /\ ~LoopGuard
    /\ response' = AgentResponse(APOLOGY, tool_calls_made, tool_results)
    /\ exit' = "max_iterations"
    /\ pc' = "idle"
    /\ UNCHANGED <<messages, system_prompt, max_messages, tools,
                   max_iterations, iteration, tool_calls_made, tool_results,
                   pending, idx, payload, events>>
    /\ UNCHANGED aside

\* One step of a turn in progress.
TurnStep ==
    \/ \E e \in LLMErrors : ChatRaisesLLMError(e)
    \/ \E c \in ToolRoundContents, calls \in ToolCallLists :
           ChatReturnsToolCalls(c, calls)
    \/ DispatchToolCall
    \/ \E c \in FinalContents : ChatReturnsFinal(c)
    \/ MaxIterationsReached

Next ==
    \/ \E u \in UserInputs : Run(u)
    \/ TurnStep

Spec == Init /\ [][Next]_vars

\* The event loop resumes the coroutine of Agent.run whenever the awaited
\* model call or tool call has completed, so a turn in progress takes its
\* next step.
FairSpec == Spec /\ WF_vars(TurnStep)

\* ---------------------------------------------------- reading the history
IsChat(e) == e.kind = "chat"
IsAppend(e) == e.kind = "append"
IsDispatch(e) == e.kind = "dispatch"

ChatEvents == SelectSeq(events, IsChat)
DispatchEvents == SelectSeq(events, IsDispatch)
AppendEvents == SelectSeq(events, IsAppend)

\* The messages appended to memory in the current turn, in order.
Appended == [i \in 1..Len(AppendEvents) |-> AppendEvents[i].msg]

\* The ToolResult the loop makes of the outcome of a dispatch.
ResultOf(out) ==
    IF out.kind = "raise" THEN ToolResult(FALSE, None, out.exc.str)
    ELSE out.result

HasToolCalls(m) == m.role = "assistant" /\ ~m.tool_calls.isNone

\* The last n messages of the stored sequence (all of it when shorter).
LastStored(n) ==
    IF Len(messages) <= n THEN messages
    ELSE SubSeq(messages, (Len(messages) - n) + 1, Len(messages))

\* The last n elements of a sequence (all of it when shorter).
Suffix(q, n) ==
    IF Len(q) <= n THEN q ELSE SubSeq(q, (Len(q) - n) + 1, Len(q))

TypeOK ==
    /\ pc \in {"idle", "loop", "tools"}
    /\ iteration \in 0..max_iterations
    /\ Len(messages) <= max_messages
    /\ exit \in {"none", "running", "final", "llm_error", "max_iterations"}
    \* the stored sequence ends with the messages appended in this turn
    /\ Suffix(messages, Len(Appended)) = Suffix(Appended, max_messages)


\* Position of the first chat event after position p, or Len(events) + 1.
NextChat(p) ==
    IF \E q \in (p + 1)..Len(events) : IsChat(events[q])
    THEN CHOOSE q \in (p + 1)..Len(events) :
             /\ IsChat(events[q])
             /\ \A r \in (p + 1)..(q - 1) : ~IsChat(events[r])
    ELSE Len(events) + 1

\* The names and the results of the dispatches of the turn, in dispatch order.
DispatchedNames == [i \in 1..Len(DispatchEvents) |-> DispatchEvents[i].call.name]
DispatchedResults ==
    [i \in 1..Len(DispatchEvents) |-> ResultOf(DispatchEvents[i].outcome)]

\* A chat event whose reply carries tool requests.
IsToolRound(e) ==
    IsChat(e) /\ e.reply.kind = "response" /\ Len(e.reply.tool_calls) > 0
\* A chat event whose reply is a response without tool requests.
IsFinalReply(e) ==
    IsChat(e) /\ e.reply.kind = "response" /\ Len(e.reply.tool_calls) = 0
IsErrorReply(e) == IsChat(e) /\ e.reply.kind = "error"

ToolRounds == SelectSeq(events, IsToolRound)

\* ------------------------------------------------------------------ claims

\* C1: every tool-role message in memory carries a tool_call_id that is the
\* id of exactly one tool-call request of an assistant message stored
\* earlier in the sequence.
MatchingRequests(i) ==
    UNION { { <<j, k>> : k \in { k \in 1..Len(messages[j].tool_calls.list) :
                  from_dict(messages[j].tool_calls.list[k]).id
                      = messages[i].tool_call_id } } :
            j \in { j \in 1..(i - 1) : HasToolCalls(messages[j]) } }

C1_ToolResultAnswersOneRequest ==
    \A i \in DOMAIN messages :
        messages[i].role = "tool" => Cardinality(MatchingRequests(i)) = 1


\* C2: in every round whose model response carries tool requests, exactly
\* one assistant message, holding the response text and all the requests, is
\* appended, and it is appended before the first dispatch and before any
\* tool-result message of the round; while the round runs, the stored
\* sequence holds that message right before the tool results of the round.
C2_AssistantMessageFirst ==
    /\ \A p \in DOMAIN events :
           IsToolRound(events[p]) =>
               /\ p < Len(events)
               /\ events[p + 1] = EvAppend(MessageAssistant(
                      events[p].reply.content,
                      ToolCallsList(events[p].reply.tool_calls)))
               /\ \A q \in (p + 2)..(NextChat(p) - 1) :
                      \/ IsDispatch(events[q])
                      \/ IsAppend(events[q]) /\ events[q].msg.role = "tool"
    /\ (pc = "tools" /\ idx <= Len(messages)) =>
           /\ HasToolCalls(messages[(Len(messages) - idx) + 1])
           /\ messages[(Len(messages) - idx) + 1].tool_calls.list = pending
           /\ \A i \in ((Len(messages) - idx) + 2)..Len(messages) :
                  messages[i].role = "tool"

C2_Witness ==
    /\ pc = "tools"
    /\ idx = 2
    /\ Len(pending) = 2
    /\ Len(ToolRounds) = 1

\* C3: for every max_iterations N >= 1 and whatever the model answers, a
\* turn makes at most N model calls and at most N tool-dispatch rounds, it
\* terminates (the for loop of a round always has a request left to
\* dispatch, and every step of a turn strictly decreases the work left,
\* which is never negative), and it ends by a final answer, a model error or
\* iteration exhaustion.
\* The work left in the turn: iterations left, then steps left in the round.
IterationsLeft == max_iterations - iteration
StepsLeft ==
    CASE pc = "tools" -> (Len(pending) - idx) + 2
      [] pc = "loop" -> 1
      [] OTHER -> 0

C3_TurnIsBounded ==
    /\ [](/\ Len(ChatEvents) <= max_iterations
          /\ Len(ToolRounds) <= max_iterations
          /\ IterationsLeft >= 0
          /\ StepsLeft >= 0
          /\ (pc = "tools" => idx <= Len(pending))
          /\ (pc = "idle" =>
                 exit \in {"none", "final", "llm_error", "max_iterations"}))
    /\ [][pc # "idle" =>
             \/ IterationsLeft' < IterationsLeft
             \/ IterationsLeft' = IterationsLeft /\ StepsLeft' < StepsLeft]_vars

C3_Witness ==
    /\ exit = "max_iterations"
    /\ max_iterations = MaxIter
    /\ Len(ChatEvents) = MaxIter
    /\ Len(ToolRounds) = MaxIter

\* C4: when the turn ends by iteration exhaustion, the returned content is
\* the fixed apology, that content is not appended to memory (the last
\* message appended and stored in the turn is not an assistant message
\* without tool_calls), and the returned lists hold every tool invocation
\* of the turn.
C4_ExhaustionIsNotStored ==
    exit = "max_iterations" =>
        /\ response.content = APOLOGY
        /\ \A i \in DOMAIN Appended : Appended[i].content # APOLOGY
        /\ Len(messages) > 0
        /\ messages[Len(messages)] = Appended[Len(Appended)]
        /\ ~(/\ messages[Len(messages)].role = "assistant"
             /\ messages[Len(messages)].tool_calls.isNone)
        /\ response.tool_calls_made = DispatchedNames
        /\ response.tool_results = DispatchedResults

C4_Witness ==
    /\ exit = "max_iterations"
    /\ Len(response.tool_calls_made) >= 2
    /\ Len(ToolRounds) = 2

\* C5: when the first model response of a turn has no tool calls and a
\* non-empty content, the turn returns exactly that content after one model
\* call and no dispatch, and exactly two messages are appended to memory:
\* the user message with the input, then the assistant message with the
\* content; they are the last two stored messages.
C5_DirectAnswer ==
    (/\ Len(ChatEvents) >= 1
     /\ IsFinalReply(ChatEvents[1])
     /\ ChatEvents[1].reply.content # "") =>
        /\ pc = "idle"
        /\ exit = "final"
        /\ Len(ChatEvents) = 1
        /\ Len(DispatchEvents) = 0
        /\ response = AgentResponse(ChatEvents[1].reply.content, <<>>, <<>>)
        /\ Appended = <<MessageUser(events[1].input),
                        MessageAssistant(ChatEvents[1].reply.content,
                                         NoToolCalls)>>
        /\ LastStored(2) = Appended

C5_Witness ==
    /\ exit = "final"
    /\ Len(ChatEvents) = 1
    /\ response.content = "The answer is 4."
    /\ Len(messages) = 2


\* C6: when the model requests exactly one tool call in round 1 and answers
\* with plain content in round 2, exactly one tool call is dispatched,
\* exactly two messages are appended between the two model calls (the
\* assistant message with the tool call, then the tool-result message with
\* the text of the tool's outcome), the second model call sees them as the
\* two newest messages, and tool_calls_made is the one-element list with the
\* tool's name.
C6_OneToolRound ==
    (/\ Len(ChatEvents) >= 2
     /\ IsToolRound(ChatEvents[1])
     /\ Len(ChatEvents[1].reply.tool_calls) = 1
     /\ IsFinalReply(ChatEvents[2])) =>
        LET reply == ChatEvents[1].reply
            tool_call == from_dict(reply.tool_calls[1])
        IN  /\ exit = "final"
            /\ Len(events) = 8
            /\ events[3] = ChatEvents[1]
            /\ events[4] = EvAppend(MessageAssistant(reply.content,
                               ToolCallsList(reply.tool_calls)))
            /\ IsDispatch(events[5])
            /\ events[5].call = tool_call
            /\ IsAppend(events[6])
            /\ events[6].msg.role = "tool"
            /\ events[6].msg.content = to_message(ResultOf(events[5].outcome))
            /\ (tool_call.name = "calculator" =>
                   events[6].msg.content = "2+2 = 4")
            /\ events[7] = ChatEvents[2]
            /\ Suffix(payload, 2) = <<events[4].msg, events[6].msg>>
            /\ Len(DispatchEvents) = 1
            /\ response.tool_calls_made = <<tool_call.name>>

C6_Witness ==
    /\ exit = "final"
    /\ Len(ChatEvents) = 2
    /\ response.tool_calls_made = <<"calculator">>
    /\ response.content = "The answer is 4."
    /\ Len(messages) = 4
    /\ messages[3].content = "2+2 = 4"

\* The number of append events strictly between positions p and q.
AppendsBetween(p, q) ==
    Cardinality({r \in (p + 1)..(q - 1) : IsAppend(events[r])})

\* C7: a request for a tool name that is not in the registry yields a failed
\* ToolResult and no exception leaves the loop; a tool-result message whose
\* text starts with "Error: " is appended for that call, and the next model
\* invocation receives that message.
C7_UnknownToolIsReported ==
    /\ exit # "exception"
    /\ \A p \in DOMAIN events :
           (/\ IsDispatch(events[p])
            /\ registry_get(tools, events[p].call.name) = None) =>
               /\ events[p].outcome.kind = "raise"
               /\ events[p].outcome.exc.type = "ToolNotFoundError"
               /\ ~ResultOf(events[p].outcome).success
               /\ p < Len(events)
               /\ IsAppend(events[p + 1])
               /\ events[p + 1].msg.role = "tool"
               /\ StartsWith(events[p + 1].msg.content, "Error: ")
               /\ LET q == NextChat(p)
                  IN  (/\ q <= Len(events)
                       /\ NextChat(q) = Len(events) + 1
                       /\ AppendsBetween(p + 1, q) < max_messages) =>
                          \E i \in DOMAIN payload :
                              payload[i] = events[p + 1].msg

C7_Witness ==
    /\ exit = "final"
    /\ Len(ChatEvents) = 2
    /\ response.tool_calls_made = <<"nosuch">>
    /\ ~response.tool_results[1].success
    /\ \E i \in DOMAIN payload :
           payload[i].role = "tool" /\ StartsWith(payload[i].content, "Error: ")

\* The number of the dispatch at position p of the history, in dispatch order.
DispatchNumber(p) == Cardinality({q \in 1..p : IsDispatch(events[q])})

\* C8: an exception raised by the body of a registered tool is wrapped into
\* a ToolExecutionError, which is not a ToolNotFoundError; the loop turns it
\* into a failed ToolResult that carries the tool name and the message, and
\* it does not leave Agent.run.
C8_ToolExceptionIsWrapped ==
    /\ exit # "exception"
    /\ \A p \in DOMAIN events :
           (/\ IsDispatch(events[p])
            /\ registry_get(tools, events[p].call.name) # None
            /\ events[p].call.arguments.type = "dict"
            /\ Tool_execute(events[p].call.name,
                            events[p].call.arguments.value).kind = "raise") =>
               LET name == events[p].call.name
                   raised == Tool_execute(name,
                                 events[p].call.arguments.value).exc
                   k == DispatchNumber(p)
               IN  /\ events[p].outcome.kind = "raise"
                   /\ events[p].outcome.exc.type = "ToolExecutionError"
                   /\ events[p].outcome.exc.type # "ToolNotFoundError"
                   /\ k <= Len(tool_results)
                   /\ tool_calls_made[k] = name
                   /\ tool_results[k] = ToolResult(FALSE, None,
                          "Error executing " \o name \o ": " \o raised.str)

C8_Witness ==
    /\ exit = "final"
    /\ response.tool_calls_made = <<"file_ops">>
    /\ response.tool_results[1].error
           = "Error executing file_ops: Could not determine home directory."

\* C9: when a model invocation fails with a model error, the turn ends at
\* once: nothing is called, dispatched or appended after the failed call,
\* the returned content is the error text with the message of the failure,
\* and the returned lists are the ones accumulated before the failure.
C9_ModelErrorEndsTurn ==
    /\ \A p \in DOMAIN events :
           IsErrorReply(events[p]) =>
               /\ p = Len(events)
               /\ pc = "idle"
               /\ exit = "llm_error"
               /\ response = AgentResponse(
                                 LLM_ERROR_PREFIX \o events[p].reply.str,
                                 DispatchedNames, DispatchedResults)
    /\ exit = "llm_error" =>
           /\ Len(events) > 0
           /\ IsErrorReply(events[Len(events)])

C9_Witness ==
    /\ exit = "llm_error"
    /\ Len(ChatEvents) = 2
    /\ Len(response.tool_calls_made) = 2
    /\ Len(response.tool_results) = 2

\* C10: the per-turn lists tool_calls_made and tool_results have equal
\* length, entry i of both belongs to the i-th dispatch of the turn across
\* all iterations, both are empty when a turn starts, and the turn returns
\* them.
C10_ParallelLists ==
    /\ Len(tool_calls_made) = Len(tool_results)
    /\ Len(tool_calls_made) = Len(DispatchEvents)
    /\ \A i \in DOMAIN tool_calls_made :
           /\ tool_calls_made[i] = DispatchEvents[i].call.name
           /\ tool_results[i] = ResultOf(DispatchEvents[i].outcome)
    /\ (Len(events) = 2 => tool_calls_made = <<>> /\ tool_results = <<>>)
    /\ (pc = "idle" /\ exit # "none") =>
           /\ response.tool_calls_made = tool_calls_made
           /\ response.tool_results = tool_results

C10_Witness ==
    /\ exit = "max_iterations"
    /\ Len(ToolRounds) = 2
    /\ Len(response.tool_calls_made) = 3
    /\ response.tool_calls_made[1] # response.tool_calls_made[3]
    /\ response.tool_results[1].success
    /\ ~response.tool_results[3].success

\* C11: within a round the requests are dispatched one at a time in the
\* order the model emitted them, each dispatch is followed at once by the
\* append of its tool-result message, so the tool messages of the round are
\* in request order, one per request; and a model call that follows a round
\* comes only after every request of the round has been dispatched and
\* answered.
\* The events of the round that starts with the chat event at position p.
RoundEvents(p) == SubSeq(events, p + 2, NextChat(p) - 1)

C11_RequestOrder ==
    \A p \in DOMAIN events :
        IsToolRound(events[p]) =>
            LET calls == events[p].reply.tool_calls
                round == RoundEvents(p)
                done == Len(round) \div 2
            IN  /\ Len(round) = 2 * done
                /\ done <= Len(calls)
                /\ \A k \in 1..done :
                       /\ IsDispatch(round[2 * k - 1])
                       /\ round[2 * k - 1].call = from_dict(calls[k])
                       /\ IsAppend(round[2 * k])
                       /\ round[2 * k].msg.role = "tool"
                       /\ round[2 * k].msg.content =
                              to_message(ResultOf(round[2 * k - 1].outcome))
                       /\ round[2 * k].msg.tool_call_id =
                              Or(Get(calls[k], "id", None),
                                 "call_" \o ToString(events[p].iteration)
                                     \o "_" \o round[2 * k - 1].call.name)
                /\ (NextChat(p) <= Len(events) \/ pc # "tools") =>
                       done = Len(calls)

\* A second model call made after a round of two different requests.
C11_Witness ==
    /\ Len(ChatEvents) = 2
    /\ IsToolRound(ChatEvents[1])
    /\ Len(ChatEvents[1].reply.tool_calls) = 2
    /\ from_dict(ChatEvents[1].reply.tool_calls[1]).name
           # from_dict(ChatEvents[1].reply.tool_calls[2]).name
    /\ Len(DispatchEvents) >= 2

\* ------------------------------------------- ConversationMemory on its own
\* A tool-call request as the ollama client hands it over in the new format:
\* an object with the attribute `function`, not a dict.
OllamaObject(name, arguments) ==
    [py_object |-> TRUE, function |-> [name |-> name, arguments |-> arguments]]

IsOllamaObject(tc) == "py_object" \in DOMAIN tc
\* Anything that is neither such an object nor a dict.
IsOtherValue(tc) == "py_other" \in DOMAIN tc

\* Lines 84-98, one element of tool_calls.
serialize_tool_call(tc) ==
    IF IsOllamaObject(tc)
    THEN [function |-> [name |-> Get(tc.function, "name", ""),
                        arguments |-> Get(tc.function, "arguments", EmptyDict)]]
    ELSE IF IsOtherValue(tc) THEN [raw |-> tc.str]
    ELSE tc

\* _serialize_tool_calls: None and the empty list give None.
serialize_tool_calls(tool_calls) ==
    IF tool_calls.isNone \/ Len(tool_calls.list) = 0
    THEN NoToolCalls
    ELSE ToolCallsList([i \in 1..Len(tool_calls.list) |->
                           serialize_tool_call(tool_calls.list[i])])

\* ConversationMemory.to_dict.
memory_to_dict(prompt, msgs) ==
    [system_prompt |-> prompt,
     messages |-> [i \in 1..Len(msgs) |->
                      [role |-> msgs[i].role,
                       content |-> msgs[i].content,
                       tool_calls |-> serialize_tool_calls(msgs[i].tool_calls),
                       tool_call_id |-> msgs[i].tool_call_id]]]

\* A from_dict that does not restore tool_call_id.
memory_from_dict_NoToolCallId(data) ==
    [system_prompt |-> Get(data, "system_prompt", None),
     max_messages |-> DEFAULT_MAX_MESSAGES,
     messages |-> [i \in 1..Len(Get(data, "messages", <<>>)) |->
                      Message(data.messages[i].role,
                              data.messages[i].content,
                              Get(data.messages[i], "tool_calls", NoToolCalls),
                              None)]]

\* ConversationMemory.from_dict: a new memory (cls()) that gets the prompt and
\* the messages of `data`, appended without trimming.
memory_from_dict(data) ==
    [system_prompt |-> Get(data, "system_prompt", None),
     max_messages |-> DEFAULT_MAX_MESSAGES,
     messages |-> [i \in 1..Len(Get(data, "messages", <<>>)) |->
                      Message(data.messages[i].role,
                              data.messages[i].content,
                              Get(data.messages[i], "tool_calls", NoToolCalls),
                              Get(data.messages[i], "tool_call_id", None))]]

\* The requests of the assistant message of the memory model: a dict with an
\* id and an object of the ollama client.
MemToolCalls ==
    <<[name |-> "calculator", arguments |-> Dict([expression |-> "2+2"]),
       id |-> "id1"],
      OllamaObject("calculator", Dict([expression |-> "2+2"]))>>

\* The messages the operations of the memory model append.
MemMessages ==
    {MessageUser("What is 2+2?"),
     MessageAssistant("Let me check.", ToolCallsList(MemToolCalls)),
     MessageToolResult("2+2 = 4", "id1")}

Op(name, result) == [name |-> name, result |-> result]

\* The variables of the agent that the memory operations do not touch.
agent_locals == <<tools, max_iterations, pc, iteration, tool_calls_made,
                  tool_results, pending, idx, response, exit, payload,
                  offered, full_response, session, extra, hooks, disk>>

allvars == <<vars, aside>>

\* A memory as its constructor leaves it, with any bound from 1 to
\* MaxMessages, held by an agent that is between turns.
MemInit ==
    /\ messages = <<>>
    /\ system_prompt = None
    /\ max_messages \in 1..MaxMessages
    /\ tools = RegisteredTools
    /\ injected = Given(1)
    /\ max_iterations = Agent_max_iterations(injected)
    /\ pc = "idle"
    /\ iteration = 0
    /\ tool_calls_made = <<>>
    /\ tool_results = <<>>
    /\ pending = <<>>
    /\ idx = 1
    /\ response = NoResponse
    /\ exit = "none"
    /\ payload = <<>>
    /\ events = <<>>
    /\ AsideInit

\* The history `events` holds the appends since the construction or the last
\* clear; the model stops appending after MaxMessages + 1 of them.
CanAppend == Len(events) <= MaxMessages

AddUserMessage(content) ==
    /\ CanAppend
    /\ messages' = add_user_message(messages, max_messages, content)
    /\ events' = Append(events, EvAppend(MessageUser(content)))
    /\ last_op' = Op("add_user_message", None)
    /\ UNCHANGED <<system_prompt, max_messages, agent_locals>>

AddAssistantMessage(content, tool_calls) ==
    /\ CanAppend
    /\ messages' = add_assistant_message(messages, max_messages, content,
                                         tool_calls)
    /\ events' = Append(events, EvAppend(MessageAssistant(content, tool_calls)))
    /\ last_op' = Op("add_assistant_message", None)
    /\ UNCHANGED <<system_prompt, max_messages, agent_locals>>

AddToolResult(content, tool_call_id) ==
    /\ CanAppend
    /\ messages' = add_tool_result(messages, max_messages, content,
                                   tool_call_id)
    /\ events' = Append(events,
           EvAppend(MessageToolResult(content, tool_call_id)))
    /\ last_op' = Op("add_tool_result", None)
    /\ UNCHANGED <<system_prompt, max_messages, agent_locals>>

\* A get_messages that puts the system message into self.messages and
\* returns that list.
GetMessages_StoresPrompt ==
    /\ messages' = get_messages(system_prompt, messages)
    /\ last_op' = Op("get_messages", get_messages(system_prompt, messages))
    /\ UNCHANGED <<system_prompt, max_messages, events, agent_locals>>

\* get_messages, lines 40-46: a new list is built and returned.
GetMessages ==
    /\ last_op' = Op("get_messages", get_messages(system_prompt, messages))
    /\ UNCHANGED <<messages, system_prompt, max_messages, events, agent_locals>>

SetSystemPrompt(prompt) ==
    /\ system_prompt' = prompt
    /\ last_op' = Op("set_system_prompt", None)
    /\ UNCHANGED <<messages, max_messages, events, agent_locals>>

\* A clear that resets the whole object, system prompt included.
Clear_DropsPrompt ==
    /\ messages' = <<>>
    /\ system_prompt' = None
    /\ events' = <<>>
    /\ last_op' = Op("clear", None)
    /\ UNCHANGED <<max_messages, agent_locals>>

\* clear, lines 52-54; Agent.clear_memory calls it on the agent's memory.
Clear ==
    /\ messages' = <<>>
    /\ events' = <<>>
    /\ last_op' = Op("clear", None)
    /\ UNCHANGED <<system_prompt, max_messages, agent_locals>>

ToDict ==
    /\ last_op' = Op("to_dict", memory_to_dict(system_prompt, messages))
    /\ UNCHANGED <<messages, system_prompt, max_messages, events, agent_locals>>

\* ConversationMemory.from_dict(data) on the dict the last to_dict returned.
FromDict ==
    /\ last_op.name = "to_dict"
    /\ last_op' = Op("from_dict", memory_from_dict(last_op.result))
    /\ UNCHANGED <<messages, system_prompt, max_messages, events, agent_locals>>

MemNext ==
    \/ \E m \in {m \in MemMessages : m.role = "user"} :
           AddUserMessage(m.content)
    \/ \E m \in {m \in MemMessages : m.role = "assistant"} :
           AddAssistantMessage(m.content, m.tool_calls)
    \/ \E m \in {m \in MemMessages : m.role = "tool"} :
           AddToolResult(m.content, m.tool_call_id)
    \/ GetMessages
    \/ SetSystemPrompt(SYSTEM_PROMPT)
    \/ Clear
    \/ ToDict
    \/ FromDict

MemSpec == MemInit /\ [][MemNext]_allvars

\* C12: once more than max_messages messages have been appended, the stored
\* sequence is exactly the max_messages most recently appended messages in
\* the order of their appends; the system prompt is not part of the stored
\* sequence, and no append changes the system prompt or the bound.
C12_KeepsMostRecent ==
    /\ [](/\ Len(Appended) > max_messages =>
                /\ Len(messages) = max_messages
                /\ messages = SubSeq(Appended,
                       (Len(Appended) - max_messages) + 1, Len(Appended))
          /\ \A i \in DOMAIN messages : messages[i].role # "system")
    /\ [][Len(events') > Len(events) =>
              UNCHANGED <<system_prompt, max_messages>>]_allvars

\* Two more appends than the bound, with a system prompt set.
C12_Witness ==
    /\ max_messages >= 2
    /\ Len(Appended) = max_messages + 2
    /\ system_prompt = SYSTEM_PROMPT
    /\ \E i, j \in DOMAIN messages : messages[i].role # messages[j].role

\* C13: every tool message of the stored sequence has, earlier in the
\* sequence, the assistant message whose tool_calls it answers: the message
\* with requests that starts its round, with nothing but tool messages of
\* that round in between.
AnsweredBy(i) ==
    { j \in 1..(i - 1) :
        /\ HasToolCalls(messages[j])
        /\ i - j <= Len(messages[j].tool_calls.list)
        /\ \A k \in (j + 1)..i : messages[k].role = "tool" }

C13_NoOrphanToolMessage ==
    \A i \in DOMAIN messages :
        messages[i].role = "tool" => AnsweredBy(i) # {}

\* C14: a call of get_messages leaves the stored messages, the system prompt
\* and the bound as they were; it returns the system message (when a prompt
\* is set) followed by the stored sequence; and a call that directly follows
\* another call of get_messages returns an equal sequence.
C14_GetMessagesIsPure ==
    [][last_op'.name = "get_messages" =>
          /\ UNCHANGED <<messages, system_prompt, max_messages>>
          /\ last_op'.result =
                 IF system_prompt \in {None, ""} THEN messages
                 ELSE <<Message("system", system_prompt, NoToolCalls, None)>>
                          \o messages
          /\ (last_op.name = "get_messages" =>
                  last_op'.result = last_op.result)]_allvars

\* get_messages has returned the prompt and two stored messages.
C14_Witness ==
    /\ last_op.name = "get_messages"
    /\ system_prompt = SYSTEM_PROMPT
    /\ Len(messages) >= 2
    /\ Len(last_op.result) = Len(messages) + 1

\* C15 as stated: from_dict(to_dict(m)) has the system prompt of m and a
\* message sequence equal to that of m, field by field.
C15_RoundTripEqual ==
    last_op.name = "from_dict" =>
        /\ last_op.result.system_prompt = system_prompt
        /\ last_op.result.messages = messages

\* C15, amended: from_dict(to_dict(m)) has the system prompt of m and as many
\* messages as m; every message has the role, the content and the
\* tool_call_id it has in m, and tool_calls that are None exactly when they
\* are None in m, with as many requests; a request that is a dict comes back
\* unchanged, and a request held as an object of the ollama client comes back
\* as the dict {"function": {"name", "arguments"}} with the name and the
\* arguments of the object, so that ToolCall.from_dict reads the same name and
\* arguments from both.
SameRequest(a, b) ==
    /\ IF IsOllamaObject(a)
       THEN b = [function |-> [name |-> a.function.name,
                               arguments |-> a.function.arguments]]
       ELSE b = a
    /\ from_dict(b).name = from_dict(a).name
    /\ from_dict(b).arguments = from_dict(a).arguments

C15_RoundTripEquivalent ==
    last_op.name = "from_dict" =>
        LET restored == last_op.result
        IN  /\ restored.system_prompt = system_prompt
            /\ Len(restored.messages) = Len(messages)
            /\ \A i \in DOMAIN messages :
                   LET m == messages[i]
                       r == restored.messages[i]
                   IN  /\ r.role = m.role
                       /\ r.content = m.content
                       /\ r.tool_call_id = m.tool_call_id
                       /\ r.tool_calls.isNone = m.tool_calls.isNone
                       /\ Len(r.tool_calls.list) = Len(m.tool_calls.list)
                       /\ \A k \in DOMAIN m.tool_calls.list :
                              SameRequest(m.tool_calls.list[k],
                                          r.tool_calls.list[k])

\* A memory with two tool rounds and a system prompt has gone through
\* to_dict and from_dict.
C15_Witness ==
    /\ last_op.name = "from_dict"
    /\ system_prompt = SYSTEM_PROMPT
    /\ Cardinality({i \in DOMAIN messages : HasToolCalls(messages[i])}) = 2
    /\ \E i \in DOMAIN messages : messages[i].role = "tool"

\* ---------------------------------------------------------- Agent.run_stream
STREAM_APOLOGY == "I apologize, but I've reached the maximum number of tool calls."

\* What llm.chat_stream delivers: the chunks of one of these streams, all of
\* them or, when it raises an LLMError on the way, a prefix.
ChunkStreams == {<<>>, <<"The answer">>, <<"The answer", " is 4.">>}

EvChatStream(tools_arg) == [kind |-> "chat_stream", tools |-> tools_arg]
EvYield(chunk) == [kind |-> "yield", chunk |-> chunk]
EvRaise(e) == [kind |-> "raise", exc |-> e]

IsChatStream(e) == e.kind = "chat_stream"
IsYield(e) == e.kind = "yield"
IsRaise(e) == e.kind = "raise"

YieldEvents == SelectSeq(events, IsYield)
\* The chunks run_stream has yielded in the current turn, in order.
Yielded == [i \in 1..Len(YieldEvents) |-> YieldEvents[i].chunk]

\* The lists and the response of Agent.run, which run_stream does not have,
\* and what is outside of the agent.
run_locals == <<tool_calls_made, tool_results, response, last_op, session,
                extra, hooks, disk>>

\* Lines 190-192.
RunStream(user_message) ==
    /\ pc = "idle"
    /\ messages' = add_user_message(messages, max_messages, user_message)
    /\ iteration' = 0
    /\ pc' = "loop"
    /\ pending' = <<>>
    /\ idx' = 1
    /\ exit' = "running"
    /\ payload' = <<>>
    /\ full_response' = ""
    /\ events' = <<EvRun(user_message),
                   EvAppend(MessageUser(user_message))>>
    /\ UNCHANGED <<system_prompt, max_messages, tools, max_iterations,
                   run_locals>>
    /\ UNCHANGED offered

\* Lines 200-203: llm.chat raises an LLMError; no handler is around the
\* call, so the error leaves run_stream.
StreamChatRaises(e) ==
    /\ pc = "loop"
    /\ LoopGuard
    /\ iteration' = iteration + 1
    /\ payload' = get_messages(system_prompt, messages)
    /\ offered' = get_tool_schemas(tools)
    /\ events' = events \o <<EvChat(iteration + 1, LLMError(e)), EvRaise(e)>>
    /\ exit' = "raised"
    /\ pc' = "idle"
    /\ UNCHANGED <<messages, system_prompt, max_messages, tools,
                   max_iterations, pending, idx, full_response, run_locals>>

\* Lines 205-210.
StreamChatReturnsToolCalls(content, calls) ==
    /\ pc = "loop"
    /\ LoopGuard
    /\ Len(calls) > 0
    /\ iteration' = iteration + 1
    /\ messages' = add_assistant_message(messages, max_messages,
                       Or(content, ""), ToolCallsList(calls))
    /\ events' = events \o
           <<EvChat(iteration + 1, LLMResponse(content, calls)),
             EvAppend(MessageAssistant(Or(content, ""), ToolCallsList(calls)))>>
    /\ payload' = get_messages(system_prompt, messages)
    /\ offered' = get_tool_schemas(tools)
    /\ pending' = calls
    /\ idx' = 1
    /\ pc' = "tools"
    /\ UNCHANGED <<system_prompt, max_messages, tools, max_iterations, exit,
                   full_response, run_locals>>

\* Lines 213-231: one pass of the for loop body.
StreamDispatchToolCall ==
    /\ pc = "tools"
    /\ idx <= Len(pending)
    /\ LET tool_call == from_dict(CurrentRequest)
           out == execute(tools, tool_call)
       IN  IF out.kind = "raise" /\ ~IsToolError(out.exc)
           THEN /\ events' = events \o
                       <<EvDispatch(tool_call, out), EvRaise(out.exc.str)>>
                /\ exit' = "raised"
                /\ pc' = "idle"
                /\ UNCHANGED <<messages, idx>>
           ELSE LET result == ResultOf(out)
                    tool_call_id == ToolCallId(tool_call, iteration)
                    msg == MessageToolResult(to_message(result), tool_call_id)
                IN  /\ messages' = add_tool_result(messages, max_messages,
                                       to_message(result), tool_call_id)
                    /\ events' = events \o
                           <<EvDispatch(tool_call, out), EvAppend(msg)>>
                    /\ idx' = idx + 1
                    /\ pc' = for_loop_next(result, idx, pending)
                    /\ exit' = exit
    /\ UNCHANGED <<system_prompt, max_messages, tools, max_iterations,
                   iteration, pending, payload, full_response, run_locals>>
    /\ UNCHANGED offered

\* A streaming call that is handed the tool schemas.
StartStream_WithTools(content) ==
    /\ pc = "loop"
    /\ iteration < max_iterations
    /\ iteration' = iteration + 1
    /\ full_response' = ""
    /\ payload' = get_messages(system_prompt, messages)
    /\ offered' = get_tool_schemas(tools)
    /\ events' = events \o
           <<EvChat(iteration + 1, LLMResponse(content, <<>>)),
             EvChatStream(tools)>>
    /\ pc' = "stream"
    /\ UNCHANGED <<messages, system_prompt, max_messages, tools,
                   max_iterations, pending, idx, exit, run_locals>>

\* Lines 200-205 and 235-240: llm.chat returns a response without tool calls;
\* its content is not used, full_response starts empty and llm.chat_stream
\* is called with the stored messages and tools=None.
StartStream(content) ==
    /\ pc = "loop"
    /\ LoopGuard
    /\ iteration' = iteration + 1
    /\ full_response' = ""
    /\ payload' = get_messages(system_prompt, messages)
    /\ offered' = get_tool_schemas(tools)
    /\ events' = events \o
           <<EvChat(iteration + 1, LLMResponse(content, <<>>)),
             EvChatStream(None)>>
    /\ pc' = "stream"
    /\ UNCHANGED <<messages, system_prompt, max_messages, tools,
                   max_iterations, pending, idx, exit, run_locals>>

\* Lines 237-242: the stream delivers its next chunk, which is added to
\* full_response and yielded.
YieldChunk ==
    /\ pc = "stream"
    /\ \E stream \in ChunkStreams :
           /\ Len(stream) > Len(Yielded)
           /\ SubSeq(stream, 1, Len(Yielded)) = Yielded
           /\ full_response' = full_response \o stream[Len(Yielded) + 1]
           /\ events' = Append(events, EvYield(stream[Len(Yielded) + 1]))
    /\ UNCHANGED <<messages, system_prompt, max_messages, tools,
                   max_iterations, pc, iteration, pending, idx, exit, payload,
                   run_locals>>
    /\ UNCHANGED offered

\* An end of stream that stores the last chunk instead of the assembled text.
StreamEnds_LastChunkOnly ==
    /\ pc = "stream"
    /\ Yielded \in ChunkStreams
    /\ LET content == IF Len(Yielded) = 0 THEN FALLBACK
                      ELSE Yielded[Len(Yielded)]
       IN  /\ messages' = add_assistant_message(messages, max_messages,
                              content, NoToolCalls)
           /\ events' = Append(events,
                  EvAppend(MessageAssistant(content, NoToolCalls)))
    /\ exit' = "final"
    /\ pc' = "idle"
    /\ UNCHANGED <<system_prompt, max_messages, tools, max_iterations,
                   iteration, pending, idx, payload, full_response, run_locals>>
    /\ UNCHANGED offered

\* Lines 244-245: the stream is exhausted; the assembled text, or the fallback
\* when it is empty, is appended as one assistant message and the generator
\* returns.
StreamEnds ==
    /\ pc = "stream"
    /\ Yielded \in ChunkStreams
    /\ LET content == Or(full_response, FALLBACK)
       IN  /\ messages' = add_assistant_message(messages, max_messages,
                              content, NoToolCalls)
           /\ events' = Append(events,
                  EvAppend(MessageAssistant(content, NoToolCalls)))
    /\ exit' = "final"
    /\ pc' = "idle"
    /\ UNCHANGED <<system_prompt, max_messages, tools, max_iterations,
                   iteration, pending, idx, payload, full_response, run_locals>>
    /\ UNCHANGED offered

\* Lines 237-242: llm.chat_stream raises an LLMError, before the first chunk
\* or between two chunks; no handler is around the loop, so the error leaves
\* run_stream and line 244 is not reached.
StreamRaises(e) ==
    /\ pc = "stream"
    /\ events' = Append(events, EvRaise(e))
    /\ exit' = "raised"
    /\ pc' = "idle"
    /\ UNCHANGED <<messages, system_prompt, max_messages, tools,
                   max_iterations, iteration, pending, idx, payload,
                   full_response, run_locals>>
    /\ UNCHANGED offered

\* An exhausted loop that also stores the apology as an assistant message.
StreamMaxIterations_Stored ==
    /\ pc = "loop"
    /\ ~LoopGuard
    /\ messages' = add_assistant_message(messages, max_messages,
                                         STREAM_APOLOGY, NoToolCalls)
    /\ events' = events \o
           <<EvYield(STREAM_APOLOGY),
             EvAppend(MessageAssistant(STREAM_APOLOGY, NoToolCalls))>>
    /\ exit' = "max_iterations"
    /\ pc' = "idle"
    /\ UNCHANGED <<system_prompt, max_messages, tools,
                   max_iterations, iteration, pending, idx, payload,
                   full_response, run_locals>>
    /\ UNCHANGED offered

\* Line 247: the while loop ran out of iterations.
StreamMaxIterations ==
    /\ pc = "loop"
    /\ ~LoopGuard
    /\ events' = Append(events, EvYield(STREAM_APOLOGY))
    /\ exit' = "max_iterations"
    /\ pc' = "idle"
    /\ UNCHANGED <<messages, system_prompt, max_messages, tools,
                   max_iterations, iteration, pending, idx, payload,
                   full_response, run_locals>>
    /\ UNCHANGED offered

StreamNext ==
    \/ \E u \in UserInputs : RunStream(u)
    \/ \E e \in LLMErrors : StreamChatRaises(e)
    \/ \E c \in ToolRoundContents, calls \in ToolCallLists :
           StreamChatReturnsToolCalls(c, calls)
    \/ StreamDispatchToolCall
    \/ \E c \in FinalContents : StartStream(c)
    \/ YieldChunk
    \/ StreamEnds
    \/ \E e \in LLMErrors : StreamRaises(e)
    \/ StreamMaxIterations

StreamSpec == Init /\ [][StreamNext]_allvars

\* C16: in run_stream a failure of a model call, in llm.chat or in
\* llm.chat_stream, does not leave run_stream as an exception: the turn ends
\* in one of the regular ways and the failure text has been yielded as output.
C16_StreamFailureIsDelivered ==
    /\ exit # "raised"
    /\ \A p \in DOMAIN events :
           IsErrorReply(events[p]) =>
               \E q \in (p + 1)..Len(events) :
                   /\ IsYield(events[q])
                   /\ events[q].chunk = LLM_ERROR_PREFIX \o events[p].reply.str

\* C17: in a turn of run_stream that reached a response without tool calls,
\* no assistant message without requests is appended while chunks are being
\* delivered; when the stream is exhausted exactly one such message has been
\* appended in the turn, it is the last event of the turn (after the last
\* chunk) and the last stored message, and its content is the chunks of the
\* turn concatenated in order, or the fallback text when there was no chunk.
RECURSIVE Concat(_)
Concat(chunks) ==
    IF Len(chunks) = 0 THEN "" ELSE chunks[1] \o Concat(Tail(chunks))

\* Positions in the history of appends of an assistant message without requests.
FinalAppends ==
    { p \in DOMAIN events :
        /\ IsAppend(events[p])
        /\ events[p].msg.role = "assistant"
        /\ events[p].msg.tool_calls.isNone }

C17_OneAssembledMessage ==
    /\ Cardinality(FinalAppends) <= 1
    /\ pc = "stream" => FinalAppends = {}
    /\ exit = "final" =>
           /\ FinalAppends = {Len(events)}
           /\ \E p \in DOMAIN events : IsChatStream(events[p])
           /\ events[Len(events)].msg.content =
                  IF Len(Yielded) = 0 THEN FALLBACK ELSE Concat(Yielded)
           /\ messages[Len(messages)] = events[Len(events)].msg

\* A turn with a tool round that ended after two chunks.
C17_Witness ==
    /\ exit = "final"
    /\ Len(Yielded) = 2
    /\ Len(DispatchEvents) >= 1

\* C18: llm.chat_stream is called without tool schemas (tools is None); once
\* it has been called, and once anything has been yielded, the turn has no
\* further model call with tools, no dispatch and no append of a tool
\* message; and every tool round of the turn was complete, one dispatch and
\* one tool message per request, before chat_stream was called.
FirstStreaming ==
    CHOOSE p \in DOMAIN events :
        /\ IsChatStream(events[p]) \/ IsYield(events[p])
        /\ \A q \in 1..(p - 1) : ~(IsChatStream(events[q]) \/ IsYield(events[q]))

\* Where the round of the chat event at p ends: at the next model call or
\* where streaming starts.
StreamRoundEnd(p) ==
    IF NextChat(p) < FirstStreaming THEN NextChat(p) ELSE FirstStreaming

C18_NoToolsWhileStreaming ==
    /\ \A p \in DOMAIN events :
           IsChatStream(events[p]) => events[p].tools = None
    /\ (\E p \in DOMAIN events : IsChatStream(events[p]) \/ IsYield(events[p])) =>
           /\ \A q \in (FirstStreaming + 1)..Len(events) :
                  /\ ~IsChat(events[q])
                  /\ ~IsDispatch(events[q])
                  /\ ~(IsAppend(events[q]) /\ events[q].msg.role = "tool")
                  /\ ~(IsAppend(events[q]) /\ HasToolCalls(events[q].msg))
           /\ \A p \in 1..FirstStreaming :
                  IsToolRound(events[p]) =>
                      LET round == SubSeq(events, p + 2, StreamRoundEnd(p) - 1)
                      IN  /\ Len(round) = 2 * Len(events[p].reply.tool_calls)
                          /\ \A k \in DOMAIN round :
                                 IF k % 2 = 1 THEN IsDispatch(round[k])
                                 ELSE IsAppend(round[k])
                                      /\ round[k].msg.role = "tool"
    /\ pc = "stream" => \E p \in DOMAIN events : IsChatStream(events[p])

\* Chunks are being delivered after a round of two tool calls.
C18_Witness ==
    /\ pc = "stream"
    /\ Len(Yielded) >= 1
    /\ Len(ToolRounds) = 1
    /\ Len(DispatchEvents) = 2

\* C19: every call of llm.chat in Agent.run is handed the system message
\* followed by the whole stored sequence as it is at the call, and the schema
\* of every registered tool, in registration order; a call that follows a
\* tool round is thereby handed, at the end of its messages, the assistant
\* message with the requests and one tool message per request of that round
\* (as many of them as the bound of the memory keeps).
LastChat ==
    CHOOSE p \in DOMAIN events :
        IsChat(events[p]) /\ \A q \in (p + 1)..Len(events) : ~IsChat(events[q])

\* The messages appended after position p of the history, in order.
AppendedAfter(p) ==
    LET later == SelectSeq(SubSeq(events, p + 1, Len(events)), IsAppend)
    IN  [i \in 1..Len(later) |-> later[i].msg]

C19_FullPayload ==
    [][Len(ChatEvents') > Len(ChatEvents) =>
          /\ payload' = <<Message("system", system_prompt, NoToolCalls, None)>>
                            \o messages
          /\ Len(offered') = Len(tools)
          /\ \A i \in DOMAIN tools :
                 offered'[i] = [type |-> "function",
                                function |-> [name |-> tools[i]]]
          /\ Len(ChatEvents) >= 1 =>
                 LET round == AppendedAfter(LastChat)
                 IN  /\ Len(round) = 1 + Len(events[LastChat].reply.tool_calls)
                     /\ HasToolCalls(round[1])
                     /\ \A k \in 2..Len(round) : round[k].role = "tool"
                     /\ Suffix(payload', Len(Suffix(round, max_messages)))
                            = Suffix(round, max_messages)]_allvars

\* The second model call of a turn, made after a round of two tool calls.
C19_Witness ==
    /\ Len(ChatEvents) = 2
    /\ Len(ChatEvents[1].reply.tool_calls) = 2
    /\ Len(payload) = 5
    /\ payload[1].role = "system"
    /\ payload[3].role = "assistant"
    /\ payload[5].role = "tool"
    /\ Len(offered) = Len(RegisteredTools)

\* ------------------------------------------------- run_assistant, main loop
\* The session loop is followed for MaxTurns turns and MaxInstances memory
\* instances.
MaxTurns == MaxMessages + 1
MaxInstances == MaxIter + 1

\* Line 111: the auto-save condition `len(memory.messages) % 10 == 0`.
AUTOSAVE_EVERY == 10

\* HistoryManager.save_session and create_session write memory.to_dict().
Saved(memory) ==
    [system_prompt |-> memory.system_prompt,
     messages |-> memory_to_dict(memory.system_prompt, memory.messages).messages,
     written |-> TRUE]

\* Lines 104-115: a turn of agent.run that ends with a final answer appends
\* the user message to the agent's memory, submits memory.get_messages() to
\* the model and appends the answer; then the loop auto-saves its own
\* `memory` when that holds a multiple of ten messages.
SessionTurn(user_message, answer) ==
    /\ running
    /\ Len(heap[agent_memory].messages) < 2 * MaxTurns
    /\ LET mem == heap[agent_memory]
           asked == add_user_message(mem.messages, mem.max_messages,
                                     user_message)
           after == add_assistant_message(asked, mem.max_messages, answer,
                                          NoToolCalls)
           h == [heap EXCEPT ![agent_memory].messages = after]
       IN  /\ heap' = h
           /\ payload' = get_messages(mem.system_prompt, asked)
           /\ snapshot' =
                  IF /\ memory_len(h[main_memory]) % AUTOSAVE_EVERY = 0
                     /\ memory_len(h[main_memory]) > 0
                  THEN Saved(h[main_memory])
                  ELSE snapshot
    /\ UNCHANGED <<agent_memory, main_memory, running>>
    /\ UNCHANGED <<messages, system_prompt, max_messages, tools,
                   max_iterations, pc, iteration, tool_calls_made,
                   tool_results, pending, idx, response, exit, events>>
    /\ UNCHANGED <<offered, last_op, full_response, extra, hooks, disk>>

\* Lines 94-100 for /help, /tools, /history, an unknown command and a /load
\* that fails: handle returns the memory it was given, then set_memory.
OtherCommand ==
    /\ running
    /\ LET set == set_memory(heap, main_memory)
       IN  /\ heap' = set.heap
           /\ agent_memory' = set.agent_memory
    /\ UNCHANGED <<main_memory, snapshot, running>>
    /\ UNCHANGED <<vars, offered, last_op, full_response, extra, hooks, disk>>

\* /clear: memory.clear() on the loop's memory, then set_memory.
ClearCommand ==
    /\ running
    /\ LET h == [heap EXCEPT ![main_memory].messages = <<>>]
           set == set_memory(h, main_memory)
       IN  /\ heap' = set.heap
           /\ agent_memory' = set.agent_memory
    /\ UNCHANGED <<main_memory, snapshot, running>>
    /\ UNCHANGED <<vars, offered, last_op, full_response, extra, hooks, disk>>

\* /save: _handle_save writes the loop's memory unless it has no messages
\* ("Nothing to save"), then set_memory.
SaveCommand ==
    /\ running
    /\ snapshot' = IF Len(heap[main_memory].messages) = 0 THEN snapshot
                   ELSE Saved(heap[main_memory])
    /\ LET set == set_memory(heap, main_memory)
       IN  /\ heap' = set.heap
           /\ agent_memory' = set.agent_memory
    /\ UNCHANGED <<main_memory, running>>
    /\ UNCHANGED <<vars, offered, last_op, full_response, extra, hooks, disk>>

\* Conversations that sessions of earlier runs have left in the history
\* directory: one of a memory that had no system prompt, one of a memory
\* with a prompt of its own.
StoredSessions ==
    { Saved([system_prompt |-> prompt,
             messages |-> <<MessageUser("What is 2+2?"),
                            MessageAssistant("The answer is 4.", NoToolCalls)>>]) :
        prompt \in {None, "You are a terse assistant."} }

\* An instance that no reference is left to: the interpreter has freed it.
Freed == [messages |-> <<>>, system_prompt |-> None, max_messages |-> 0]

\* /load <id> of a session that has been written, `data` being its
\* conversation: load_session makes a new memory with from_dict, the loop's
\* `memory` becomes that instance, then set_memory.  The loop and the agent
\* then both hold the new instance, and the instances they held are freed.
LoadCommand(data) ==
    /\ running
    /\ data.written
    /\ Len(heap) < MaxInstances
    /\ LET loaded == memory_from_dict(data)
           h == Append([r \in DOMAIN heap |-> Freed],
                       [messages |-> loaded.messages,
                              system_prompt |-> loaded.system_prompt,
                              max_messages |-> loaded.max_messages])
           set == set_memory(h, Len(h))
       IN  /\ heap' = set.heap
           /\ agent_memory' = set.agent_memory
           /\ main_memory' = Len(h)
           /\ history_op' = HistoryOp("load_session", None,
                                      Returns(loaded), <<>>)
    /\ UNCHANGED <<snapshot, running>>
    /\ UNCHANGED <<vars, offered, last_op, full_response, extra, hooks, files,
                   now, injected>>

\* Lines 85-91: /exit; the loop's memory is saved when it has messages and
\* the user confirms.
ExitCommand(confirm) ==
    /\ running
    /\ snapshot' = IF Len(heap[main_memory].messages) > 0 /\ confirm
                   THEN Saved(heap[main_memory])
                   ELSE snapshot
    /\ running' = FALSE
    /\ UNCHANGED <<heap, agent_memory, main_memory>>
    /\ UNCHANGED <<vars, offered, last_op, full_response, extra, hooks, disk>>

SessionNext ==
    \/ \E u \in UserInputs : SessionTurn(u, "The answer is 4.")
    \/ OtherCommand
    \/ ClearCommand
    \/ SaveCommand
    \/ \E data \in StoredSessions \cup {snapshot} : LoadCommand(data)
    \/ \E confirm \in BOOLEAN : ExitCommand(confirm)

SessionSpec == Init /\ [][SessionNext]_allvars

\* C20: the agent appends to the memory instance it was handed: whenever
\* the agent's memory holds messages, the instance the agent holds is the
\* instance the session loop holds and saves, so the loop's memory has every
\* message the agent has appended.
C20_AgentUsesHandedMemory ==
    Len(heap[agent_memory].messages) > 0 =>
        /\ agent_memory = main_memory
        /\ heap[main_memory].messages = heap[agent_memory].messages

\* ------------------------------------------------ the tool layer under test
\* ToolResult values as the tools and the dispatcher make them: with and
\* without data, with empty data, failed with an error text.
ToolResults ==
    {ToolResult(TRUE, "2+2 = 4", None),
     ToolResult(TRUE, "", None),
     ToolResult(TRUE, None, None),
     ToolResult(FALSE, None, "Division by zero"),
     ToolResult(FALSE, "2+2 = 4", "Division by zero"),
     ToolResult(FALSE, None, "")}

\* result.to_message() on a ToolResult.
ToMessage(result) ==
    /\ tool_op' = ToolOp("to_message", result, to_message(result))
    /\ UNCHANGED <<vars, offered, last_op, full_response, session, registry,
                   hooks, disk>>

\* Tool calls whose arguments arrive as a dict, as a string that is the
\* JSON text of a dict, and as a string that is no JSON text.
RawCalls ==
    {ToolCall("calculator", Dict([expression |-> "2+2"]), None),
     ToolCall("calculator", Str(JsonExpression), None),
     ToolCall("calculator", Str("2+2"), None),
     ToolCall("nosuch", Str("2+2"), None)}

\* ToolDispatcher.execute(tool_call) on the registry of the program.  The
\* value keeps the arguments after lines 95-99, whether the tool body was
\* entered, and the outcome.
Execute(tool_call) ==
    /\ tool_op' = ToolOp("execute", tool_call,
           [passed |-> resolve_arguments(tool_call.arguments),
            invoked |-> tool_invoked(registry_get(tools, tool_call.name),
                                     resolve_arguments(tool_call.arguments)),
            out |-> execute(tools, tool_call)])
    /\ UNCHANGED <<vars, offered, last_op, full_response, session, registry,
                   hooks, disk>>

\* The tool objects handed to register: two names, the first of them with
\* two different objects, and a third name.
ToolNames == {"calculator", "file_ops", "weather"}
ToolObjects ==
    {Tool("calculator", "Perform mathematical calculations."),
     Tool("calculator", "Evaluate an expression."),
     Tool("file_ops", "Perform file operations."),
     Tool("file_ops", "Read files."),
     Tool("weather", "Get current weather.")}

\* registry.register(tool) on the registry under test.
Register(tool) ==
    /\ registry' = register(registry, tool)
    /\ tool_op' = ToolOp("register", tool, None)
    /\ UNCHANGED <<vars, offered, last_op, full_response, session, hooks,
                   disk>>

\* registry.get_all_schemas().
GetAllSchemas ==
    /\ tool_op' = ToolOp("get_all_schemas", None, get_all_schemas(registry))
    /\ UNCHANGED <<vars, offered, last_op, full_response, session, registry,
                   hooks, disk>>

\* The expressions handed to the calculator: arithmetic, a division by
\* zero, and texts outside of the grammar.
ValidExpressions == {"2+2", "4/2", "2*(3-4)", "abs(3-4)"}
ZeroDivisions == {"1/0"}
OutsideGrammar ==
    {"import os", "os.system", "__import__('os')", "invalid", "'2'", "abs()"}

\* The keyword arguments of CalculatorTool.execute: none, an empty expression,
\* an argument of another name, and each expression.
CalculatorInputs ==
    {<<>>, [expression |-> ""], [expr |-> "2+2"]}
    \cup {[expression |-> e] :
             e \in ValidExpressions \cup ZeroDivisions \cup OutsideGrammar}

\* await CalculatorTool().execute(**kwargs).
Calculate(kwargs) ==
    /\ tool_op' = ToolOp("calculator", kwargs, CalculatorTool_execute(kwargs))
    /\ UNCHANGED <<vars, offered, last_op, full_response, session, registry,
                   hooks, disk>>

ToolNext ==
    \/ \E tool \in ToolObjects : Register(tool)
    \/ \E kwargs \in CalculatorInputs : Calculate(kwargs)
    \/ GetAllSchemas
    \/ \E result \in ToolResults : ToMessage(result)
    \/ \E tool_call \in RawCalls : Execute(tool_call)

ToolSpec == Init /\ [][ToolNext]_allvars

\* C21: to_message depends on the result alone: for a successful result it
\* is the data as a string, or "Operation completed successfully." when the
\* result has no data; for a failed result it is "Error: " followed by the
\* error text.
C21_ToMessage ==
    tool_op.name = "to_message" =>
        LET result == tool_op.arg
            text == tool_op.value
        IN  /\ result.success /\ result.data # None => text = result.data
            /\ result.success /\ result.data = None =>
                   text = "Operation completed successfully."
            /\ ~result.success => text = "Error: " \o result.error

\* to_message was called on a successful result whose data is the empty
\* string.
C21_Witness ==
    /\ tool_op.name = "to_message"
    /\ tool_op.arg.success
    /\ tool_op.arg.data = ""
    /\ tool_op.value = ""

\* C22: when execute receives the arguments of a registered tool as a raw
\* string, it parses the string as JSON and uses the parsed value; when the
\* string does not parse, the raw string is handed to the tool unchanged and
\* the tool is invoked with it.
C22_RawStringReachesTool ==
    /\ tool_op.name = "execute"
    /\ tool_op.arg.arguments.type = "str"
    /\ registry_get(tools, tool_op.arg.name) # None
    => LET text == tool_op.arg.arguments.value
       IN  IF json_loads(text).ok
           THEN /\ tool_op.value.passed = json_loads(text).value
                /\ tool_op.value.invoked
                /\ tool_op.value.out =
                       Tool_execute(tool_op.arg.name, json_loads(text).value.value)
           ELSE /\ tool_op.value.passed = Str(text)
                /\ tool_op.value.invoked

\* C23: after any sequence of register calls the registry maps each name to
\* the tool registered under it last: a register call makes its tool the one
\* found under the tool's name, succeeds also when the name is taken, and
\* leaves every other name as it was; get_all_schemas returns exactly one
\* schema for each registered name, the schema of the tool found under it.
C23_LastRegistrationWins ==
    /\ [](/\ \A n \in ToolNames :
               Cardinality({i \in DOMAIN registry : registry[i].key = n})
                   = IF registry_contains(registry, n) THEN 1 ELSE 0
          /\ tool_op.name = "get_all_schemas" =>
               /\ Len(tool_op.value) =
                      Cardinality({n \in ToolNames : registry_contains(registry, n)})
               /\ \A n \in ToolNames :
                      registry_contains(registry, n) =>
                          Cardinality({i \in DOMAIN tool_op.value :
                              tool_op.value[i] =
                                  tool_schema(registry_lookup(registry, n))}) = 1)
    /\ [][\A tool \in ToolObjects :
            /\ tool_op'.name = "register"
            /\ tool_op'.arg = tool
            =>
                /\ registry_lookup(registry', tool.name) = tool
                /\ \A n \in ToolNames \ {tool.name} :
                       registry_lookup(registry', n) = registry_lookup(registry, n)
         ]_allvars

\* A name was registered twice with different tools, and get_all_schemas
\* was called on a registry of three names.
C23_Witness ==
    /\ tool_op.name = "get_all_schemas"
    /\ Len(registry) = 3
    /\ registry[1].key = "calculator"
    /\ registry[1].tool = Tool("calculator", "Evaluate an expression.")
    /\ registry[2].tool = Tool("file_ops", "Read files.")

\* C24: clear() empties the stored sequence and leaves the system prompt and
\* the max_messages bound as they were; a get_messages() that follows it
\* returns the system message alone when a system prompt is set, and nothing
\* otherwise.
C24_ClearKeepsPrompt ==
    /\ [][last_op'.name = "clear" =>
            /\ messages' = <<>>
            /\ system_prompt' = system_prompt
            /\ max_messages' = max_messages]_allvars
    /\ [][last_op.name = "clear" /\ last_op'.name = "get_messages" =>
            last_op'.result =
                IF Truthy(system_prompt)
                THEN <<MessageSystem(system_prompt)>>
                ELSE <<>>]_allvars

\* A memory with a system prompt and a bound below the default has been
\* cleared.
C24_Witness ==
    /\ last_op.name = "clear"
    /\ system_prompt = SYSTEM_PROMPT
    /\ max_messages = 2
    /\ messages = <<>>

\* C25: when the model returns a response with no tool calls and empty
\* content, the turn ends there: the fallback text is appended as the
\* assistant message, it is the newest stored message, and the turn returns
\* the same text as its content.
C25_EmptyContentFallback ==
    \A p \in DOMAIN events :
        IsFinalReply(events[p]) /\ ~Truthy(events[p].reply.content) =>
            /\ Len(events) = p + 1
            /\ events[p + 1] = EvAppend(MessageAssistant(FALLBACK, NoToolCalls))
            /\ messages[Len(messages)] = MessageAssistant(FALLBACK, NoToolCalls)
            /\ pc = "idle"
            /\ exit = "final"
            /\ response.content = FALLBACK

\* A turn with a tool round has ended on a response with empty content.
C25_Witness ==
    /\ exit = "final"
    /\ Len(ChatEvents) = 2
    /\ ChatEvents[2].reply.content = ""
    /\ response.content = FALLBACK
    /\ Len(response.tool_calls_made) > 0

\* ------------------------------------------------- the agent with callbacks
\* The callbacks handed to set_callbacks: all three, and the two that
\* run_assistant sets (main.py, lines 54-57).
CallbackSets ==
    {[on_thinking |-> TRUE, on_tool_start |-> TRUE, on_tool_end |-> TRUE],
     [on_thinking |-> FALSE, on_tool_start |-> TRUE, on_tool_end |-> TRUE]}

\* Agent.set_callbacks, lines 67-76, called before the first turn.
SetCallbacks(cb) ==
    /\ pc = "idle"
    /\ exit = "none"
    /\ callbacks = NoCallbacks
    /\ callbacks' = cb
    /\ UNCHANGED <<vars, offered, quiet, notices>>

NotifyNext ==
    \/ \E cb \in CallbackSets : SetCallbacks(cb)
    \/ \E u \in UserInputs : Run(u)
    \/ TurnStep

NotifySpec == Init /\ [][NotifyNext]_allvars

\* The calls made to one of the callbacks in the current turn.
NoticesOf(kind) == {i \in DOMAIN notices : notices[i].kind = kind}

\* The calls to on_tool_start and on_tool_end, in order.
IsToolNotice(n) == n.kind \in {"tool_start", "tool_end"}
ToolNotices == SelectSeq(notices, IsToolNotice)

\* C26: within a turn, a callback that is set is called as follows, and a
\* callback that is not set is not called.  on_thinking: exactly once
\* immediately before each model invocation.  on_tool_start: exactly once
\* before each dispatch, with the tool name.  on_tool_end: exactly once after
\* each dispatch, whether it returned or raised, with the tool name and the
\* outcome, before the tool-result message is appended.  The calls to
\* on_tool_start and on_tool_end alternate, starting with on_tool_start.
C26_Notifications ==
    /\ Cardinality(NoticesOf("thinking")) =
           IF callbacks.on_thinking THEN Len(ChatEvents) ELSE 0
    /\ Cardinality(NoticesOf("tool_start")) =
           IF callbacks.on_tool_start THEN Len(DispatchEvents) ELSE 0
    /\ Cardinality(NoticesOf("tool_end")) =
           IF callbacks.on_tool_end THEN Len(DispatchEvents) ELSE 0
    /\ \A p \in DOMAIN events :
           /\ IsChat(events[p]) /\ callbacks.on_thinking =>
                  \E i \in DOMAIN notices : notices[i] = NoticeThinking(p - 1)
           /\ IsDispatch(events[p]) /\ callbacks.on_tool_start =>
                  \E i \in DOMAIN notices :
                      notices[i] = NoticeToolStart(events[p].call.name, p - 1)
           /\ IsDispatch(events[p]) /\ callbacks.on_tool_end =>
                  /\ \E i \in DOMAIN notices :
                         notices[i] = NoticeToolEnd(events[p].call.name,
                                          ResultOf(events[p].outcome), p)
                  /\ p < Len(events)
                  /\ IsAppend(events[p + 1])
                  /\ events[p + 1].msg.role = "tool"
    /\ \A i \in 1..(Len(notices) - 1) : notices[i].at <= notices[i + 1].at
    /\ callbacks.on_tool_start /\ callbacks.on_tool_end =>
           \A i \in DOMAIN ToolNotices :
               /\ ToolNotices[i].kind =
                      IF i % 2 = 1 THEN "tool_start" ELSE "tool_end"
               /\ i % 2 = 0 =>
                      /\ ToolNotices[i].name = ToolNotices[i - 1].name
                      /\ ToolNotices[i].at = ToolNotices[i - 1].at + 1

\* With all callbacks set, a turn had a round of two dispatches, of which
\* the first returned and the second raised, and then a final answer.
C26_Witness ==
    /\ callbacks.on_thinking
    /\ callbacks.on_tool_start
    /\ callbacks.on_tool_end
    /\ exit = "final"
    /\ Len(DispatchEvents) = 2
    /\ DispatchEvents[1].outcome.kind = "return"
    /\ DispatchEvents[2].outcome.kind = "raise"
    /\ Len(notices) = 6

\* Agent.run with no callback set (every `if self._on_...` is false), as a
\* function of its inputs: the user message and the replies of the model,
\* in order.  A turn is its history, its two lists, and its return value.
Turn(log, made, results, answer, how) ==
    [events |-> log, tool_calls_made |-> made, tool_results |-> results,
     response |-> answer, exit |-> how]

RECURSIVE PlainToolCalls(_, _, _)
\* Lines 127-151 for the requests `calls` of iteration k.
PlainToolCalls(turn, calls, k) ==
    IF calls = <<>> THEN turn
    ELSE LET tool_call == from_dict(Head(calls))
             out == execute(tools, tool_call)
             result == IF out.kind = "raise"
                       THEN ToolResult(FALSE, None, out.exc.str)
                       ELSE out.result
             msg == MessageToolResult(to_message(result),
                                      ToolCallId(tool_call, k))
         IN  PlainToolCalls(
                 Turn(turn.events \o <<EvDispatch(tool_call, out), EvAppend(msg)>>,
                      Append(turn.tool_calls_made, tool_call.name),
                      Append(turn.tool_results, result),
                      turn.response, turn.exit),
                 Tail(calls), k)

RECURSIVE PlainLoop(_, _, _, _)
\* Lines 97-172 from iteration k on; `ended` tells whether the turn has
\* returned, or is waiting for the next reply.
PlainLoop(turn, replies, k, ended) ==
    IF k >= max_iterations
    THEN (IF ended
          THEN Turn(turn.events, turn.tool_calls_made, turn.tool_results,
                    AgentResponse(APOLOGY, turn.tool_calls_made,
                                  turn.tool_results),
                    "max_iterations")
          ELSE turn)
    ELSE IF replies = <<>> THEN turn
    ELSE LET reply == Head(replies)
             chat == EvChat(k + 1, reply)
         IN  IF reply.kind = "error"
             THEN Turn(Append(turn.events, chat), turn.tool_calls_made,
                       turn.tool_results,
                       AgentResponse(LLM_ERROR_PREFIX \o reply.str,
                                     turn.tool_calls_made, turn.tool_results),
                       "llm_error")
             ELSE IF Len(reply.tool_calls) > 0
             THEN LET said == MessageAssistant(
                                  IF Truthy(reply.content) THEN reply.content
                                  ELSE "",
                                  ToolCallsList(reply.tool_calls))
                  IN  PlainLoop(
                          PlainToolCalls(
                              Turn(turn.events \o <<chat, EvAppend(said)>>,
                                   turn.tool_calls_made, turn.tool_results,
                                   turn.response, turn.exit),
                              reply.tool_calls, k + 1),
                          Tail(replies), k + 1, ended)
             ELSE LET final_content == IF Truthy(reply.content)
                                       THEN reply.content ELSE FALLBACK
                  IN  Turn(turn.events \o
                               <<chat, EvAppend(MessageAssistant(final_content,
                                                                 NoToolCalls))>>,
                           turn.tool_calls_made, turn.tool_results,
                           AgentResponse(final_content, turn.tool_calls_made,
                                         turn.tool_results),
                           "final")

\* Lines 91-95, then the loop.
PlainRun(user_message, replies, ended) ==
    PlainLoop(Turn(<<EvRun(user_message), EvAppend(MessageUser(user_message))>>,
                   <<>>, <<>>, NoResponse, "running"),
              replies, 0, ended)

\* The replies the model has given in the current turn, in order.
Replies == [i \in 1..Len(ChatEvents) |-> ChatEvents[i].reply]

\* C27: whatever callbacks are set, a turn does what the turn without
\* callbacks does on the same user input, model replies and tool outcomes:
\* between the rounds and at its end, the history of model calls,
\* dispatches and appended messages, the two lists, and (at the end) the
\* AgentResponse are those of the run without callbacks, and the stored
\* messages end with the appended ones.
C27_CallbacksDoNotSteer ==
    exit # "none" /\ pc # "tools" =>
        LET plain == PlainRun(events[1].input, Replies, pc = "idle")
        IN  /\ events = plain.events
            /\ tool_calls_made = plain.tool_calls_made
            /\ tool_results = plain.tool_results
            /\ exit = plain.exit
            /\ response = plain.response
            /\ Suffix(messages, Len(Appended)) = Suffix(Appended, max_messages)

\* With all callbacks set, a turn of a round with two dispatches and a final
\* answer has ended, and each callback was called.
C27_Witness ==
    /\ callbacks.on_thinking
    /\ callbacks.on_tool_end
    /\ pc = "idle"
    /\ exit = "final"
    /\ Len(tool_results) = 2
    /\ Cardinality(NoticesOf("thinking")) = 2
    /\ Cardinality(NoticesOf("tool_end")) = 2

\* ----------------------------------------------------------- HistoryManager
HistoryError(message) == [type |-> "HistoryError", str |-> message]

\* What open() raises on a path that may not be opened.
PermissionDenied == [type |-> "PermissionError", str |-> "Permission denied"]

\* _load_file, lines 236-240, on a path that exists: open and read, then
\* json.loads.
load_file(file) ==
    CASE file.state = "unreadable" -> Raises(PermissionDenied)
      [] file.state = "garbage" ->
             Raises([type |-> "JSONDecodeError",
                     str |-> "Expecting value: line 1 column 1 (char 0)"])
      [] OTHER -> Returns(file.data)

\* Path.exists(): a file is there, readable or not.
path_exists(file) == file.state \in {"unreadable", "garbage", "json"}

\* Lines 105-109: the title is made of the first user message.
session_title(msgs) ==
    IF \E i \in DOMAIN msgs : msgs[i].role = "user"
    THEN LET first == CHOOSE i \in DOMAIN msgs :
                          /\ msgs[i].role = "user"
                          /\ \A j \in 1..(i - 1) : msgs[j].role # "user"
             content == msgs[first].content
         IN  IF Len(content) > 50
             THEN SubSeq(content, 1, 50) \o "..."
             ELSE content
    ELSE None

\* save_session, lines 103-143: the file of the session, how the call ends,
\* and the exceptions raised on the way.  Reading an existing file is in a
\* try block of its own whose handler is `pass` (lines 115-121); opening the
\* file for writing fails when the file may not be opened or none may be
\* created.
save_session(fs, session_id, memory) ==
    LET file == fs[session_id]
        read == load_file(file)
        read_failures == IF path_exists(file) /\ read.kind = "raise"
                         THEN <<read.exc>> ELSE <<>>
        data == [metadata |-> [session_id |-> session_id,
                               message_count |-> memory_len(memory),
                               title |-> session_title(memory.messages)],
                 conversation |-> memory_to_dict(memory.system_prompt,
                                                 memory.messages)]
    IN  IF file.state \in {"unreadable", "forbidden"}
        THEN [files |-> fs,
              out |-> Raises(HistoryError("Failed to save session: "
                                          \o PermissionDenied.str)),
              failures |-> Append(read_failures, PermissionDenied)]
        ELSE [files |-> [fs EXCEPT ![session_id] = File("json", data)],
              out |-> Returns(None),
              failures |-> read_failures]

\* load_session, lines 155-165.
load_session(fs, session_id) ==
    LET file == fs[session_id]
        read == load_file(file)
    IN  IF ~path_exists(file)
        THEN [out |-> Raises(HistoryError("Session not found: " \o session_id)),
              failures |-> <<HistoryError("Session not found: " \o session_id)>>]
        ELSE IF read.kind = "raise"
        THEN [out |-> Raises(HistoryError("Failed to load session: "
                                          \o read.exc.str)),
              failures |-> <<read.exc>>]
        ELSE [out |-> Returns(memory_from_dict(
                          Get(read.result, "conversation", <<>>))),
              failures |-> <<>>]

\* The memories handed to save_session: a new one, and one with a turn.
SavedMemories ==
    {[messages |-> <<>>, system_prompt |-> SYSTEM_PROMPT,
      max_messages |-> DEFAULT_MAX_MESSAGES],
     [messages |-> <<MessageUser("What is 2+2?"),
                     MessageAssistant("The answer is 4.", NoToolCalls)>>,
      system_prompt |-> SYSTEM_PROMPT,
      max_messages |-> DEFAULT_MAX_MESSAGES]}

\* What happens to a session file from outside: it is removed, loses its
\* permissions, is overwritten with text that is no JSON, or is removed
\* from a directory that has become read-only.
DamagedStates == {"absent", "unreadable", "garbage", "forbidden"}

Damage(session_id, state) ==
    /\ files' = [files EXCEPT ![session_id] = File(state, <<>>)]
    /\ UNCHANGED <<vars, offered, last_op, full_response, session, extra,
                   hooks, history_op, now, injected>>

SaveSession(session_id, memory) ==
    /\ LET saved == save_session(files, session_id, memory)
       IN  /\ files' = saved.files
           /\ history_op' = HistoryOp("save_session", session_id, saved.out,
                                      saved.failures)
    /\ UNCHANGED <<vars, offered, last_op, full_response, session, extra,
                   hooks, now, injected>>

\* _generate_session_id, lines 71-73: datetime.now() formatted with
\* "%Y%m%d_%H%M%S", a text with a resolution of one second.
Seconds == <<"20260101_120000", "20260101_120001">>
generate_session_id(t) == Seconds[t]

\* create_session, lines 75-87: a generated id, save_session under it, and
\* the id is returned.
CreateSession(memory) ==
    /\ LET session_id == generate_session_id(now)
           saved == save_session(files, session_id, memory)
       IN  /\ files' = saved.files
           /\ history_op' = HistoryOp("create_session", session_id,
                                 IF saved.out.kind = "raise" THEN saved.out
                                 ELSE Returns(session_id),
                                 saved.failures)
    /\ UNCHANGED <<vars, offered, last_op, full_response, session, extra,
                   hooks, now, injected>>

\* A second passes.
Tick ==
    /\ now < Len(Seconds)
    /\ now' = now + 1
    /\ UNCHANGED <<vars, offered, last_op, full_response, session, extra,
                   hooks, files, history_op, injected>>

LoadSession(session_id) ==
    /\ LET loaded == load_session(files, session_id)
       IN  history_op' = HistoryOp("load_session", session_id, loaded.out,
                                   loaded.failures)
    /\ UNCHANGED <<vars, offered, last_op, full_response, session, extra,
                   hooks, files, now, injected>>

HistoryNext ==
    \/ \E id \in SessionIds, state \in DamagedStates : Damage(id, state)
    \/ \E id \in SessionIds, memory \in SavedMemories : SaveSession(id, memory)
    \/ \E id \in SessionIds : LoadSession(id)
    \/ \E memory \in SavedMemories : CreateSession(memory)
    \/ Tick

HistorySpec == Init /\ [][HistoryNext]_allvars

\* C28: save_session and load_session surface every failure to the caller
\* as a HistoryError: a call in which an exception was raised (missing
\* session, unreadable or malformed file, failed write) ends by raising,
\* never by returning, and what it raises is a HistoryError.
C28_FailuresSurface ==
    history_op.name \in {"save_session", "load_session"} =>
        /\ history_op.failures # <<>> => history_op.out.kind = "raise"
        /\ history_op.out.kind = "raise" =>
               history_op.out.exc.type = "HistoryError"

\* The results of the valid expressions of the model.
Expected(expression) ==
    CASE expression = "2+2" -> "4"
      [] expression = "4/2" -> "2"
      [] expression = "2*(3-4)" -> "-2"
      [] expression = "abs(3-4)" -> "1"

\* C29: CalculatorTool.execute never raises.  For a missing or empty
\* expression, an expression outside of the arithmetic grammar (import,
\* attribute access, unknown name or function) and a division by zero it
\* returns a ToolResult with success false, no data and an error text; for a
\* valid arithmetic expression it returns success true with the result in
\* data.
C29_CalculatorNeverRaises ==
    tool_op.name = "calculator" =>
        LET expression == Get(tool_op.arg, "expression", "")
            out == tool_op.value
        IN  /\ out.kind = "return"
            /\ expression \in {""} \cup OutsideGrammar \cup ZeroDivisions =>
                   /\ ~out.result.success
                   /\ out.result.data = None
                   /\ Truthy(out.result.error)
            /\ expression = "" => out.result.error = "No expression provided"
            /\ expression \in ZeroDivisions =>
                   out.result.error = "Division by zero"
            /\ expression \in ValidExpressions =>
                   /\ out.result.success
                   /\ out.result.data =
                          expression \o " = " \o Expected(expression)
                   /\ out.result.error = None

\* The calculator was handed a division by zero and returned a failed
\* result.
C29_Witness ==
    /\ tool_op.name = "calculator"
    /\ tool_op.arg = [expression |-> "1/0"]
    /\ tool_op.value.kind = "return"
    /\ ~tool_op.value.result.success

\* The stored tool-result messages whose id was synthesized at line 147.
SynthesizedIds ==
    {i \in DOMAIN messages :
        /\ messages[i].role = "tool"
        /\ StartsWith(messages[i].tool_call_id, "call_")}

\* C30: no two tool-result messages in memory share a correlation id: every
\* invocation whose request carried no id, two calls of one tool in a round
\* and calls of different turns included, gets a synthesized tool_call_id of
\* its own.
C30_SynthesizedIdsAreUnique ==
    \A i, j \in SynthesizedIds :
        i # j => messages[i].tool_call_id # messages[j].tool_call_id


\* C31: in a round with several requested tool calls, a call that fails
\* (tool not found, or an error raised while the tool executes) does not end
\* the round: no exception leaves the turn, the request after a failed call
\* is the next one dispatched, and when the round is over it has appended
\* exactly one tool-result message per requested call.
C31_FailureIsLocal ==
    /\ exit # "exception"
    /\ \A p \in DOMAIN events :
           IsToolRound(events[p]) =>
               LET calls == events[p].reply.tool_calls
                   round == RoundEvents(p)
                   current == NextChat(p) = Len(events) + 1
                   failed == { k \in 1..Len(calls) :
                                 /\ 2 * k <= Len(round)
                                 /\ IsDispatch(round[2 * k - 1])
                                 /\ round[2 * k - 1].outcome.kind = "raise" }
                   answers == { q \in DOMAIN round :
                                  /\ IsAppend(round[q])
                                  /\ round[q].msg.role = "tool" }
               IN  /\ \A k \in failed :
                          /\ round[2 * k - 1].outcome.exc.type
                                 \in {"ToolNotFoundError", "ToolExecutionError"}
                          /\ IsAppend(round[2 * k])
                          /\ ~ResultOf(round[2 * k - 1].outcome).success
                          /\ k < Len(calls) =>
                                 IF Len(round) = 2 * k
                                 THEN current /\ pc = "tools" /\ idx = k + 1
                                 ELSE /\ IsDispatch(round[2 * k + 1])
                                      /\ round[2 * k + 1].call
                                             = from_dict(calls[k + 1])
                   /\ (~current \/ pc # "tools") =>
                          Cardinality(answers) = Len(calls)

\* A round whose first call failed and whose second call was dispatched all
\* the same, followed by the next model call.
C31_Witness ==
    /\ Len(ChatEvents) = 2
    /\ IsToolRound(ChatEvents[1])
    /\ Len(ChatEvents[1].reply.tool_calls) = 2
    /\ Len(DispatchEvents) = 2
    /\ DispatchEvents[1].outcome.kind = "raise"
    /\ DispatchEvents[1].call.name = "nosuch"
    /\ DispatchEvents[2].call.name = "file_ops"
    /\ Len(SelectSeq(Appended, LAMBDA m : m.role = "tool")) = 2


\* C32: when a turn of Agent.run ends on a model error, the step that ends
\* it leaves the memory as it was (stored messages, system prompt, bound), so
\* the stored sequence still ends with the messages appended earlier in the
\* turn; nothing is appended for the error: the error text returned to the
\* caller is the content of no stored message, and the newest stored message
\* is the user message or a tool result of the turn.
C32_ErrorKeepsMemory ==
    /\ [](exit = "llm_error" =>
             /\ StartsWith(response.content, LLM_ERROR_PREFIX)
             /\ Suffix(messages, Len(Appended)) = Suffix(Appended, max_messages)
             /\ \A i \in DOMAIN messages :
                    messages[i].content # response.content
             /\ Len(messages) > 0
             /\ messages[Len(messages)].role \in {"user", "tool"}
             /\ IsErrorReply(events[Len(events)]))
    /\ [][(exit # "llm_error" /\ exit' = "llm_error") =>
             /\ messages' = messages
             /\ system_prompt' = system_prompt
             /\ max_messages' = max_messages]_vars

\* A turn that ended on a model error after one completed tool round.
C32_Witness ==
    /\ exit = "llm_error"
    /\ Len(ToolRounds) = 1
    /\ Len(messages) = 3
    /\ messages[1].role = "user"
    /\ HasToolCalls(messages[2])
    /\ messages[3].role = "tool"


\* C33: in every reachable state of a ConversationMemory the number of
\* stored messages is at most the configured max_messages, and the memory
\* that from_dict makes of the dict of to_dict has the configured bound and
\* holds no more messages than that bound.
C33_BoundIsKept ==
    /\ Len(messages) <= max_messages
    /\ last_op.name = "from_dict" =>
           /\ last_op.result.max_messages = max_messages
           /\ Len(last_op.result.messages) <= last_op.result.max_messages


\* C34: every message sequence the agent submits to the model begins with a
\* system message and holds no other system message, after any sequence of
\* turns, clears and session loads; the memory the agent holds always has a
\* system prompt; a loaded memory without a system prompt gets the default
\* prompt, a loaded one with a prompt keeps it.
C34_OneSystemMessage ==
    /\ [](/\ Truthy(heap[agent_memory].system_prompt)
          /\ \A i \in DOMAIN heap[agent_memory].messages :
                 heap[agent_memory].messages[i].role # "system"
          /\ payload # <<>> =>
                 /\ payload[1].role = "system"
                 /\ \A i \in 2..Len(payload) : payload[i].role # "system")
    /\ [][(Len(heap') > Len(heap) /\ history_op'.name = "load_session") =>
             LET loaded == history_op'.out.result
             IN  /\ heap'[agent_memory'].messages = loaded.messages
                 /\ heap'[agent_memory'].system_prompt =
                        IF Truthy(loaded.system_prompt)
                        THEN loaded.system_prompt
                        ELSE SYSTEM_PROMPT]_allvars
    /\ [][payload' # payload =>
             payload'[1] = MessageSystem(heap[agent_memory].system_prompt)]_allvars

\* A turn made after the load of a session that had no system prompt: the
\* model is sent the default prompt and then the loaded conversation.
C34_Witness ==
    /\ history_op.name = "load_session"
    /\ history_op.out.result.system_prompt = None
    /\ Len(payload) = 4
    /\ payload[1] = MessageSystem(SYSTEM_PROMPT)
    /\ payload[2] = history_op.out.result.messages[1]


\* The message sequence the agent submits to the model at the start of a
\* turn with the input u: core.py lines 91 and 105, add_user_message and then
\* memory.get_messages() of the agent's memory.
WillSubmit(u) ==
    LET mem == heap[agent_memory]
    IN  get_messages(mem.system_prompt,
                     add_user_message(mem.messages, mem.max_messages, u))

\* C35: handling a slash command other than /clear and a successful /load
\* (/help, /tools, /history, an unknown command, a failed /load, /save)
\* leaves the message sequence the agent will submit on the next turn
\* unchanged.
C35_CommandsKeepConversation ==
    [][(OtherCommand \/ SaveCommand) =>
           \A u \in UserInputs : WillSubmit(u)' = WillSubmit(u)]_allvars


\* C36: a turn of Agent.run_stream makes at most max_iterations calls of
\* llm.chat and at most one call of llm.chat_stream; chat_stream is called
\* only right after a chat response without tool calls; and when the
\* iterations are exhausted the fixed apology text is the only output of the
\* turn, no assistant message without requests has been appended, and the
\* apology is not stored.
C36_StreamTurnIsBounded ==
    /\ Len(ChatEvents) <= max_iterations
    /\ Len(ChatEvents) = iteration
    /\ Len(SelectSeq(events, IsChatStream)) <= 1
    /\ \A p \in DOMAIN events :
           IsChatStream(events[p]) =>
               /\ p > 1
               /\ IsFinalReply(events[p - 1])
    /\ exit = "max_iterations" =>
           /\ Len(ChatEvents) = max_iterations
           /\ \A i \in DOMAIN ChatEvents : IsToolRound(ChatEvents[i])
           /\ Yielded = <<STREAM_APOLOGY>>
           /\ IsYield(events[Len(events)])
           /\ FinalAppends = {}
           /\ Len(SelectSeq(events, IsChatStream)) = 0
           /\ \A i \in DOMAIN messages : messages[i].content # STREAM_APOLOGY

\* A streaming turn that used up two iterations on tool rounds and ended
\* with the apology.
C36_Witness ==
    /\ exit = "max_iterations"
    /\ max_iterations = 2
    /\ Len(ChatEvents) = 2
    /\ Yielded = <<STREAM_APOLOGY>>
    /\ messages[Len(messages)].role = "tool"


\* C37: create_session returns a session id that is not the id of any
\* session already stored, so creating a session never overwrites a saved
\* one, also when two sessions are created in quick succession: the file
\* of the id it returns did not hold a saved session before the call.
C37_NewIdIsFresh ==
    [][((\E memory \in SavedMemories : CreateSession(memory))
        /\ history_op'.out.kind = "return") =>
           files[history_op'.out.result].state # "json"]_allvars


\* ------------------------------------------- the bound given at construction
\* Agent(llm, dispatcher, memory, max_iterations) with any value a caller
\* can give: none, 0, or a positive bound.
InjectedBounds == {NotGiven} \cup {Given(n) : n \in 0..MaxIter}

BoundInit ==
    /\ messages = <<>>
    /\ system_prompt = SYSTEM_PROMPT
    /\ max_messages = MaxMessages
    /\ tools = RegisteredTools
    /\ injected \in InjectedBounds
    /\ max_iterations = Agent_max_iterations(injected)
    /\ pc = "idle"
    /\ iteration = 0
    /\ tool_calls_made = <<>>
    /\ tool_results = <<>>
    /\ pending = <<>>
    /\ idx = 1
    /\ response = NoResponse
    /\ exit = "none"
    /\ payload = <<>>
    /\ events = <<>>
    /\ AsideInit

\* Turns of Agent.run against a model that asks for the calculator or
\* answers.
BoundNext ==
    \/ \E u \in UserInputs : Run(u)
    \/ \E c \in ToolRoundContents, r \in ToolCallRequests :
           /\ from_dict(r).name = "calculator"
           /\ ChatReturnsToolCalls(c, <<r>>)
    \/ DispatchToolCall
    \/ ChatReturnsFinal("The answer is 4.")
    \/ MaxIterationsReached

BoundSpec == BoundInit /\ [][BoundNext]_allvars

\* C38: the iteration bound of a turn is the max_iterations value given at
\* the construction of the Agent, for every non-negative integer, 0
\* included, and the configured default only when none is given; with a
\* bound of 0 a turn makes no model call and ends by iteration exhaustion.
C38_InjectedBoundIsUsed ==
    /\ max_iterations = IF injected.isNone THEN MAX_TOOL_ITERATIONS
                        ELSE injected.value
    /\ (injected = Given(0) /\ pc = "idle" /\ exit # "none") =>
           /\ exit = "max_iterations"
           /\ Len(ChatEvents) = 0

====
